---- MODULE Spec2Model ----
(***************************************************************************)
(* Amoeba: the sparse association map, the proximity similarity and the    *)
(* redundancy judge, the command synthesizer, the learning updater and the *)
(* child-process executor, as state machines translated from the C code.  *)
(***************************************************************************)
EXTENDS Integers, Sequences, FiniteSets, TLC

(* ---------------- program constants (include/config.h) ---------------- *)
CMDMAX == 10
CMDMIN == 1
SRCHMIN == 1
SRCHMAX == 100
IDX_TERMINATOR == -1
REWARD == 10
PENALTY == 1
REDUNDANCY_THRESHOLD == 75
STORE_REDUNDANT == 1
KILL_ATTEMPTS == 3
TREND_WINDOW_SIZE == 10
DefaultBuckets == 1024
LINEBUFFER == 100
\* the size of the read buffer tmp[] and the first capacity of the output buffer
BufSize == 4096

(* ---------------- bounds of the model ---------------- *)
\* largest absolute association value the association-map runs let a key reach
MaxVal == 2

\* longest array handed to the similarity functions on their own
MaxLineLen == 3
\* largest vocabulary size
MaxWords == 3
\* most update_database calls of one run
MaxUpdates == 2
\* most writes of the child to the pipe during one execute_command
MaxWrites == 2
\* samples pushed into the trend tracker in a tracker run
MaxPushes == 11
\* worker threads main is asked for
NumWorkers == 2
\* words the vocabulary of the thread runs is seeded with
MaxSeed == 1
\* largest vocabulary of the runs that synthesize with scope 0
MaxVocab == 150
\* rounds in which the tuner changes the length in a run that follows the locks
MaxTunes == 1
\* most lines of the tokens file and directory entries read while the vocabulary is built
MaxGrow == 3

VARIABLES
    assoc,   \* Assoc: buckets (bucket index -> chain, empty chains left out), nbuckets, nentries
    aop,     \* the last assoc_add call: key, delta, return code, value before the call
    simA,    \* arr1 of the similarity call
    simB,    \* arr2 of the similarity call
    simOut,  \* what the similarity call returned, NoSim before it ran
    token,   \* Words.token[0..numWords): the vocabulary, each word a sequence of characters
    settings,\* CommandSettings: length, scope
    obs,     \* Observations.entries[0..numObservations): lines of word indices, each ending in -1
    pc,      \* where the worker is in its loop: "construct" or "execute"
    cc,      \* the last construct_command call: N, the settings it read, argc, out_cmd[0..argc]
    upd,     \* the last update_database call: its arguments and what it computed
    nupd,    \* how many update_database calls the worker has made
    ex,      \* execute_command: where the call is, its pipe ends, buffer, kill_stage, return value
    child,   \* the forked child: "none", "running", "zombie" (exited, not waited for),
             \* "reaped" (collected by this call's waitpid) or "lost" (no longer a child to wait for)
    env,     \* termination_requested, whether RUNTIME has elapsed, bytes waiting in the pipe,
             \* whether the child has made its own process group, whether a SIGKILL reached it
    tracker, \* LearningTrendTracker: window_size, lrnvals, index, count, moving_average
    feed,    \* the samples pushed so far: their kind, whether all were zero, how many,
             \* and the last TREND_WINDOW_SIZE of them, oldest first
    tun,     \* the last adjustment of tuner_thread: the verdict it read and the length it found
    sem,     \* the count of thread_sem
    wpc,     \* where each worker thread is
    wcmd,    \* cmd_indices of each worker
    tpc,     \* where the tuner thread is
    mpc,     \* main: where it is, its loop index, num_threads, whether the tuner was started,
             \* the count thread_sem was initialised with
    disk,    \* what write_database wrote: tokens, association values, observations
    mutex,   \* the thread holding each pthread mutex, NoThread when it is unlocked
    loc,     \* the locals of each worker: ret/output of execute_command, and inside
             \* update_database the tokenized line, the reward and the loop positions
    hist     \* history: the component last written without its mutex held, the most
             \* mutexes one thread held at once, the rewards added to each association key

assocVars == <<assoc, aop>>
simVars == <<simA, simB, simOut>>
learnVars == <<token, settings, obs, pc, cc, upd, nupd>>
execVars == <<ex, child, env>>
trendVars == <<tracker, feed, tun>>
sysVars == <<sem, wpc, wcmd, tpc, mpc, disk, mutex, loc, hist>>
vars == <<assoc, aop, simA, simB, simOut, token, settings, obs, pc, cc, upd, nupd, ex, child, env,
          tracker, feed, tun, sem, wpc, wcmd, tpc, mpc, disk, mutex, loc, hist>>

(* ======================= assoc.c ======================= *)

\* The low 12 bits of hkey(i,pi,k,pk) for i,pi,k,pk in 0..3, in the order
\* i*64 + pi*16 + k*4 + pk; the values of the 64-bit mix of the source
\* (mix64 applied after xor-ing in each component), tabulated.
HKeyLow ==
  <<
     1557,  629,  307,  873,  922, 3836, 3496, 3571, 3929, 1851, 3942, 3247,   37,  809, 1185, 1973,
     3682, 1198, 3309, 3396,  767,  892,  702, 2129, 1743,  240, 2669, 3922,  827,  643,  274, 3467,
     2912, 1875, 3667, 4006,  250, 1723, 3176,  454, 2820, 3774, 2364, 3102, 1335, 2384, 2681, 2820,
     3928, 3839,  108, 3888, 1321, 3876, 3041, 1170, 2666, 2616, 4048, 2920, 3261, 3950,  472, 2685,
     2164, 3713, 2712, 4009,  984, 2747, 3752,  455, 2547,  850,  486, 3689,  639,  586,  683, 1677,
     2120, 3257, 3314,  270, 1949, 2521, 1889, 1956, 2242, 2118, 1061, 1525, 3380, 2252, 1873, 3901,
     2787,   30, 2694, 1881, 2243, 3527,  196,  620, 1412,  417, 1214, 1820, 2831, 1430,  742, 1673,
     3347,  396,  702, 1968, 2683, 3801, 1418, 4060,  440, 2930, 3158,  724,  941,  520, 1835, 4012,
      267, 3407,  527, 1574, 1633, 2566, 2803, 3815, 3562, 2696,    0, 2425, 2221, 2299, 1500, 3612,
     2153, 2545, 2291, 2541, 1580,  400, 3814, 2346,  596, 1973, 3661,  558,   46, 1493, 1006, 1858,
      478, 3280, 2923, 3000, 2825,  857, 4026, 3539, 3334, 1049, 3084, 2357,  569, 3056, 4048,  781,
     3744, 3340, 4040, 2436, 1975, 2878, 2610, 2401, 1473, 2016, 3961, 2335,  406, 1507, 2015, 3245,
     1192, 3304, 2960, 1693, 1935, 1466, 3760, 3251, 2617, 4087, 2978, 1748, 3261, 1071, 3510, 1713,
     3330, 2776, 3682,   44,  417, 3173, 3325, 3018, 3388, 3798, 2779,  453, 3551, 2264, 1758, 1589,
      802,  197, 3266, 2276,  830,  895, 1236,   71, 1610, 3327, 1424, 1084, 3236, 2855, 3287,   30,
     3227,  361, 1177, 1532, 2555, 1554, 1248, 2535, 3833, 3565, 3701,  492,   61, 3765, 1814, 4073
  >>

hkey(i, pi, k, pk) == HKeyLow[i * 64 + pi * 16 + k * 4 + pk + 1]

RECURSIVE Pow2From(_, _)
Pow2From(p, x) == IF p < x THEN Pow2From(p * 2, x) ELSE p

round_up_pow2(x) == Pow2From(1, x)

keys_equal(e, i, pi, k, pk) == e.i = i /\ e.pi = pi /\ e.k = k /\ e.pk = pk

\* a->buckets[idx]: the chain hanging off a bucket head, head first (in a
\* table without entries every bucket head is NULL, whatever the index)
Chain(a, idx) ==
    IF DOMAIN a.buckets = {} THEN <<>>
    ELSE IF idx \in DOMAIN a.buckets THEN a.buckets[idx] ELSE <<>>

\* a->buckets[idx] = head of chain c (NULL when c is empty)
SetChain(buckets, idx, c) ==
    [b \in (DOMAIN buckets \ {idx}) \cup (IF c = <<>> THEN {} ELSE {idx}) |->
        IF b = idx THEN c ELSE buckets[b]]

assoc_init(hint) ==
    [buckets |-> <<>>, nbuckets |-> round_up_pow2(IF hint # 0 THEN hint ELSE DefaultBuckets),
     nentries |-> 0]

\* the entries in the order the loops over buckets and chains visit them
RECURSIVE EntriesFrom(_, _)
EntriesFrom(a, b) ==
    LET later == {x \in DOMAIN a.buckets : x >= b}
    IN  IF later = {} THEN <<>>
        ELSE LET nb == CHOOSE x \in later : \A y \in later : x <= y
             IN  a.buckets[nb] \o EntriesFrom(a, nb + 1)

RECURSIVE Relink(_, _, _)
Relink(es, nb, newcap) ==
    IF es = <<>> THEN nb
    ELSE LET e == Head(es)
             idx == hkey(e.i, e.pi, e.k, e.pk) % newcap
         IN  Relink(Tail(es), SetChain(nb, idx, <<e>> \o (IF idx \in DOMAIN nb THEN nb[idx] ELSE <<>>)), newcap)

\* a rehash that forgets to widen the mask: entries are linked at their index
\* under the old capacity
resize_OldMask(a, newcap) ==
    [buckets |-> Relink(EntriesFrom(a, 0), <<>>, a.nbuckets),
     nbuckets |-> newcap, nentries |-> a.nentries]

resize(a, newcap) ==
    [buckets |-> Relink(EntriesFrom(a, 0), <<>>, newcap),
     nbuckets |-> newcap, nentries |-> a.nentries]

\* position of the key in a chain, 0 when the walk reaches NULL
RECURSIVE FindFrom(_, _, _, _, _, _)
FindFrom(c, n, i, pi, k, pk) ==
    IF n > Len(c) THEN 0
    ELSE IF keys_equal(c[n], i, pi, k, pk) THEN n
    ELSE FindFrom(c, n + 1, i, pi, k, pk)

RemoveAt(c, n) == SubSeq(c, 1, n - 1) \o SubSeq(c, n + 1, Len(c))

\* the body of assoc_add after the delta == 0 test; rs_ok and m_ok say whether
\* the calloc of resize and the malloc of a new entry succeed
AddCore(a, i, pi, k, pk, delta, rs_ok, m_ok) ==
    LET need == (a.nentries + 1) * 4 > a.nbuckets * 3
    IN  IF need /\ ~rs_ok THEN [a |-> a, rc |-> -1]
        ELSE
        LET a1  == IF need THEN resize(a, IF a.nbuckets # 0 THEN a.nbuckets * 2 ELSE DefaultBuckets) ELSE a
            idx == hkey(i, pi, k, pk) % a1.nbuckets
            c   == Chain(a1, idx)
            n   == FindFrom(c, 1, i, pi, k, pk)
        IN  IF n # 0 THEN
                LET v == c[n].val + delta
                IN  IF v = 0
                    THEN [a |-> [a1 EXCEPT !.buckets = SetChain(a1.buckets, idx, RemoveAt(c, n)),
                                           !.nentries = a1.nentries - 1],
                          rc |-> 0]
                    ELSE [a |-> [a1 EXCEPT !.buckets = SetChain(a1.buckets, idx, [c EXCEPT ![n].val = v])],
                          rc |-> 0]
            ELSE IF ~m_ok THEN [a |-> a1, rc |-> -1]
            ELSE [a |-> [a1 EXCEPT !.buckets = SetChain(a1.buckets, idx,
                                        <<[i |-> i, pi |-> pi, k |-> k, pk |-> pk, val |-> delta]>> \o c),
                                   !.nentries = a1.nentries + 1],
                  rc |-> 0]

\* an assoc_add that leaves an entry in place when its value reaches 0
assoc_add_KeepZero(a, i, pi, k, pk, delta, rs_ok, m_ok) ==
    IF delta = 0 THEN [a |-> a, rc |-> 0]
    ELSE LET r   == AddCore(a, i, pi, k, pk, delta, rs_ok, m_ok)
             idx == hkey(i, pi, k, pk) % r.a.nbuckets
             was == FindFrom(Chain(a, hkey(i, pi, k, pk) % a.nbuckets), 1, i, pi, k, pk)
             now == FindFrom(Chain(r.a, idx), 1, i, pi, k, pk)
         IN  IF r.rc = 0 /\ was # 0 /\ now = 0
             THEN [a |-> [r.a EXCEPT !.buckets = SetChain(r.a.buckets, idx,
                                        <<[i |-> i, pi |-> pi, k |-> k, pk |-> pk, val |-> 0]>> \o Chain(r.a, idx)),
                                     !.nentries = r.a.nentries + 1],
                   rc |-> 0]
             ELSE r

assoc_add(a, i, pi, k, pk, delta, rs_ok, m_ok) ==
    IF delta = 0 THEN [a |-> a, rc |-> 0]
    ELSE AddCore(a, i, pi, k, pk, delta, rs_ok, m_ok)

assoc_get(a, i, pi, k, pk) ==
    LET c == Chain(a, hkey(i, pi, k, pk) % a.nbuckets)
        n == FindFrom(c, 1, i, pi, k, pk)
    IN  IF n # 0 THEN c[n].val ELSE 0

\* assoc_iter_init: bucket 0, no current entry (e = 0 stands for NULL, otherwise
\* the position of the current entry in its chain)
assoc_iter_init == [bucket |-> 0, e |-> 0]

\* assoc_iter_next: the iterator after the call, has = the return value
assoc_iter_next(a, it) ==
    LET inchain == it.e # 0 /\ it.e + 1 <= Len(Chain(a, it.bucket))
        from    == IF it.e # 0 THEN it.bucket + 1 ELSE it.bucket
        later   == {x \in DOMAIN a.buckets : x >= from /\ x < a.nbuckets}
    IN  IF inchain THEN [it |-> [bucket |-> it.bucket, e |-> it.e + 1], has |-> 1]
        ELSE IF later = {} THEN [it |-> [bucket |-> a.nbuckets, e |-> 0], has |-> 0]
        ELSE [it |-> [bucket |-> CHOOSE x \in later : \A y \in later : x <= y, e |-> 1], has |-> 1]

\* every entry a full iteration yields, in order
RECURSIVE IterFrom(_, _)
IterFrom(a, it) ==
    LET r == assoc_iter_next(a, it)
    IN  IF r.has = 0 THEN <<>>
        ELSE <<Chain(a, r.it.bucket)[r.it.e]>> \o IterFrom(a, r.it)

IterAll(a) == IterFrom(a, assoc_iter_init)

(* ======================= learning.c ======================= *)

\* Similarities are C floats; the model keeps them as exact fractions num/den.
\* A per-index score 1/(1+d) is counted in units of 1/SimScale, which every
\* 1+d of the model divides.
SimScale == 3 * 4 * 5

Zero == [num |-> 0, den |-> 1]

\* x >= y, x > y and x = y on fractions with positive denominators
RatGe(x, y) == x.num * y.den >= y.num * x.den
RatGt(x, y) == x.num * y.den > y.num * x.den
RatEq(x, y) == x.num * y.den = y.num * x.den

Percent(p) == [num |-> p, den |-> 1]

abs_diff_int(a, b) == IF a > b THEN a - b ELSE b - a

\* eff_len_terminated: the number of cells before the first -1, at most max_len
RECURSIVE EffLenFrom(_, _, _)
EffLenFrom(a, n, max_len) ==
    IF n < max_len /\ a[n + 1] # -1 THEN EffLenFrom(a, n + 1, max_len) ELSE n

eff_len_terminated(a, max_len) == IF max_len <= 0 THEN 0 ELSE EffLenFrom(a, 0, max_len)

\* the inner loop over j of array_similarity_proximity for one i (0-based i and
\* j): the pair <<min_distance, best_match_index>> when the loop ends
RECURSIVE ScanMatches(_, _, _, _, _, _)
ScanMatches(x, i, arr2, n2, j, st) ==
    IF j >= n2 THEN st
    ELSE IF x = arr2[j + 1] /\ abs_diff_int(i, j) < st[1]
         THEN ScanMatches(x, i, arr2, n2, j + 1, <<abs_diff_int(i, j), j>>)
         ELSE ScanMatches(x, i, arr2, n2, j + 1, st)

\* the outer loop: total_score in units of 1/SimScale
RECURSIVE TotalScore(_, _, _, _, _)
TotalScore(arr1, n1, arr2, n2, i) ==
    IF i >= n1 THEN 0
    ELSE LET st == ScanMatches(arr1[i + 1], i, arr2, n2, 0, <<n2, -1>>)
         IN  (IF st[2] # -1 THEN SimScale \div (1 + st[1]) ELSE 0)
               + TotalScore(arr1, n1, arr2, n2, i + 1)

\* a similarity normalised by the length of the second array
array_similarity_proximity_ByN2(arr1, n1, arr2, n2) ==
    IF n1 <= 0 \/ n2 <= 0 THEN Zero
    ELSE [num |-> TotalScore(arr1, n1, arr2, n2, 0) * 100, den |-> n2 * SimScale]

array_similarity_proximity(arr1, n1, arr2, n2) ==
    IF n1 <= 0 \/ n2 <= 0 THEN Zero
    ELSE [num |-> TotalScore(arr1, n1, arr2, n2, 0) * 100, den |-> n1 * SimScale]

line_similarity_proximity(line1, max_len1, line2, max_len2) ==
    LET n1 == eff_len_terminated(line1, max_len1)
        n2 == eff_len_terminated(line2, max_len2)
    IN  IF n1 <= 0 \/ n2 <= 0 THEN Zero
        ELSE array_similarity_proximity(line1, n1, line2, n2)

\* the loop of is_redundant_line_proximity from row i (0-based) on, with the
\* best score and index so far
RECURSIVE RedundantLoop(_, _, _, _, _, _, _)
RedundantLoop(line, observationLength, entries, numObservations, threshold, i, st) ==
    IF i >= numObservations THEN st
    ELSE LET s  == line_similarity_proximity(line, observationLength, entries[i + 1], observationLength)
             s1 == IF RatGt(s, st.best) THEN [best |-> s, best_idx |-> i] ELSE st
         IN  IF RatGe(s1.best, threshold) THEN s1
             ELSE RedundantLoop(line, observationLength, entries, numObservations, threshold, i + 1, s1)

is_redundant_line_proximity(line, observationLength, entries, numObservations, threshold) ==
    IF observationLength <= 0
    THEN [redundant |-> 0, best_index |-> -1, best_score |-> Zero]
    ELSE LET st == RedundantLoop(line, observationLength, entries, numObservations, threshold, 0,
                                 [best |-> Zero, best_idx |-> -1])
         IN  [redundant |-> IF RatGe(st.best, threshold) THEN 1 ELSE 0,
              best_index |-> st.best_idx, best_score |-> st.best]

(* ======================= command.c ======================= *)

CLAMP(x, lo, hi) == IF x < lo THEN lo ELSE IF x > hi THEN hi ELSE x

\* rand_between: the values rand() can make it return
rand_between(lo, hi_inclusive) == IF hi_inclusive <= lo THEN {lo} ELSE lo .. hi_inclusive

\* arrays are 0-based in the code and 1-based here: arr[i] is At(arr, i)
At(arr, i) == arr[i + 1]
Put(arr, i, v) == [arr EXCEPT ![i + 1] = v]

\* partial_shuffle from step i on: every array the random swaps can leave
RECURSIVE ShuffleFrom(_, _, _, _)
ShuffleFrom(arr, n, k, i) ==
    IF ~(i < k /\ i < n) THEN {arr}
    ELSE UNION {ShuffleFrom(Put(Put(arr, i, At(arr, j)), j, At(arr, i)), n, k, i + 1) :
                    j \in rand_between(i, n - 1)}

partial_shuffle(arr, n, k) == ShuffleFrom(arr, n, k, 0)

RECURSIVE PairScoreFrom(_, _, _, _, _, _, _)
PairScoreFrom(a, N, w, pos, chosen, chosen_cnt, q) ==
    IF q >= chosen_cnt THEN 0
    ELSE LET wq == At(chosen, q)
         IN  (IF wq < 0 \/ w >= N \/ wq >= N THEN 0
              ELSE assoc_get(a, w, pos, wq, q) + assoc_get(a, wq, q, w, pos))
               + PairScoreFrom(a, N, w, pos, chosen, chosen_cnt, q + 1)

pair_score(a, N, w, pos, chosen, chosen_cnt) == PairScoreFrom(a, N, w, pos, chosen, chosen_cnt, 0)

\* the scan of greedy_pick from candidate i on: unset says best is still
\* LONG_MIN (below every score), best_indices holds the indices that tie on
\* best so far (at most LINEBUFFER of them)
RECURSIVE GreedyScan(_, _, _, _, _, _, _, _, _)
GreedyScan(a, N, cands, cand_cnt, chosen, chosen_cnt, pos, i, st) ==
    IF i >= cand_cnt THEN st
    ELSE LET sc == pair_score(a, N, At(cands, i), pos, chosen, chosen_cnt)
             st1 == IF st.unset \/ sc > st.best
                    THEN [unset |-> FALSE, best |-> sc, best_indices |-> <<i>>]
                    ELSE IF sc = st.best /\ Len(st.best_indices) < LINEBUFFER
                    THEN [st EXCEPT !.best_indices = Append(@, i)]
                    ELSE st
         IN  GreedyScan(a, N, cands, cand_cnt, chosen, chosen_cnt, pos, i + 1, st1)

\* a pick that takes any candidate of the window, whatever its score
greedy_pick_Any(a, N, cands, cand_cnt, chosen, chosen_cnt, pos) ==
    IF cand_cnt > 0 THEN rand_between(0, cand_cnt - 1) ELSE {-1}

\* greedy_pick: the indices into cands it can return
greedy_pick(a, N, cands, cand_cnt, chosen, chosen_cnt, pos) ==
    LET st == GreedyScan(a, N, cands, cand_cnt, chosen, chosen_cnt, pos, 0,
                         [unset |-> TRUE, best |-> 0, best_indices |-> <<>>])
    IN  IF Len(st.best_indices) <= 0
        THEN (IF cand_cnt > 0 THEN rand_between(0, cand_cnt - 1) ELSE {-1})
        ELSE {At(st.best_indices, which) : which \in rand_between(0, Len(st.best_indices) - 1)}

\* a removal that leaves the picked candidate in the sample window
RemoveFromPool_Keep(cands, idx, sample_size) == cands

\* candidates[idx] = candidates[sample_size - 1]; the caller then shrinks the window
RemoveFromPool(cands, idx, sample_size) == Put(cands, idx, At(cands, sample_size - 1))

\* the while loop of construct_command: every chosen[] it can end with
RECURSIVE GreedyLoop(_, _, _, _, _, _)
GreedyLoop(a, N, cands, sample_size, chosen, want_len) ==
    IF ~(Len(chosen) < want_len /\ sample_size > 0) THEN {chosen}
    ELSE UNION { UNION {
            GreedyLoop(a, N, RemoveFromPool(cands, idx, sample_size), sample_size - 1,
                       Append(chosen, At(cands, idx)), want_len)
            : idx \in (IF g < 0 THEN rand_between(0, sample_size - 1) ELSE {g}) }
         : g \in greedy_pick(a, N, cands, sample_size, chosen, Len(chosen), Len(chosen)) }

\* a sample size computed from the scope as given, not clamped to [SRCHMIN, SRCHMAX]
sample_size_of_NoScopeClamp(N, scope_pct) ==
    LET raw == (N * scope_pct * 2 + 100) \div 200
    IN  IF raw < 1 THEN 1 ELSE IF raw > N THEN N ELSE raw

\* a sample size that is truncated instead of rounded
sample_size_of_Trunc(N, scope_pct) ==
    LET raw == (N * CLAMP(scope_pct, SRCHMIN, SRCHMAX)) \div 100
    IN  IF raw < 1 THEN 1 ELSE IF raw > N THEN N ELSE raw

\* (int)((double)N * (double)CLAMP(scope_pct, SRCHMIN, SRCHMAX) / 100.0 + 0.5),
\* then clamped to [1, N]
sample_size_of(N, scope_pct) ==
    LET raw == (N * CLAMP(scope_pct, SRCHMIN, SRCHMAX) * 2 + 100) \div 200
    IN  IF raw < 1 THEN 1 ELSE IF raw > N THEN N ELSE raw

\* construct_command: every <<argc, out_cmd[0..argc]>> it can return for a
\* vocabulary of N words with association map a; m_ok says whether the malloc
\* of the candidate list succeeds
construct_command(a, N, s, m_ok) ==
    LET want0 == CLAMP(s.length, CMDMIN, CMDMAX)
        want_len == IF want0 > N THEN N ELSE want0
        sample_size == sample_size_of(N, s.scope)
    IN  IF N = 0 \/ ~m_ok THEN {[argc |-> 0, out_cmd |-> <<IDX_TERMINATOR>>]}
        ELSE UNION { UNION {
                { [argc |-> Len(ch), out_cmd |-> ch \o <<IDX_TERMINATOR>>] :
                    ch \in GreedyLoop(a, N, RemoveFromPool(cands, pick_i, sample_size), sample_size - 1,
                                      <<At(cands, pick_i)>>, want_len) }
                : pick_i \in rand_between(0, sample_size - 1) }
             : cands \in partial_shuffle([x \in 1 .. N |-> x - 1], N, sample_size) }

(* ======================= database.c ======================= *)

\* the characters of a decimal number
Digits == <<"0", "1", "2", "3", "4", "5", "6", "7", "8", "9">>

\* fprintf("%d"): the decimal digits of n, with a leading '-' when n < 0
RECURSIVE UtoA(_)
UtoA(n) == IF n < 10 THEN <<Digits[n + 1]>> ELSE Append(UtoA(n \div 10), Digits[(n % 10) + 1])

ItoA(n) == IF n < 0 THEN <<"-">> \o UtoA(0 - n) ELSE UtoA(n)

DigitVal(c) == CHOOSE d \in 0 .. 9 : Digits[d + 1] = c

IsDigit(c) == \E d \in 0 .. 9 : Digits[d + 1] = c

\* atoi after the sign: the value of the leading digits, acc so far
RECURSIVE AtoU(_, _, _)
AtoU(t, n, acc) ==
    IF n <= Len(t) /\ IsDigit(t[n]) THEN AtoU(t, n + 1, acc * 10 + DigitVal(t[n])) ELSE acc

\* atoi on a token (no leading white space): optional sign, then digits; 0
\* when there is no digit
atoi(t) ==
    IF t # <<>> /\ t[1] = "-" THEN 0 - AtoU(t, 2, 0)
    ELSE IF t # <<>> /\ t[1] = "+" THEN AtoU(t, 2, 0)
    ELSE AtoU(t, 1, 0)

\* the delimiters of strtok_r(" \t\r\n"), also the white space fscanf skips
Whitespace == {" ", "\t", "\r", "\n"}

\* strtok_r over the whole line: the maximal runs of non-delimiter characters
RECURSIVE SplitFrom(_, _, _)
SplitFrom(line, n, cur) ==
    IF n > Len(line) THEN (IF cur = <<>> THEN <<>> ELSE <<cur>>)
    ELSE IF line[n] \in Whitespace
         THEN (IF cur = <<>> THEN <<>> ELSE <<cur>>) \o SplitFrom(line, n + 1, <<>>)
         ELSE SplitFrom(line, n + 1, Append(cur, line[n]))

\* find_token_index_unlocked: the first index whose word equals tok, else -1
RECURSIVE FindTokenFrom(_, _, _)
FindTokenFrom(tokens, tok, i) ==
    IF i >= Len(tokens) THEN -1
    ELSE IF At(tokens, i) = tok THEN i
    ELSE FindTokenFrom(tokens, tok, i + 1)

find_token_index_unlocked(tokens, tok) == FindTokenFrom(tokens, tok, 0)

RECURSIVE KnownIndices(_, _)
KnownIndices(tokens, toks) ==
    IF toks = <<>> THEN <<>>
    ELSE LET idx == find_token_index_unlocked(tokens, Head(toks))
         IN  (IF idx >= 0 THEN <<idx>> ELSE <<>>) \o KnownIndices(tokens, Tail(toks))

\* a NULL int* (no array): a tokenized line is never empty, it ends in -1
NullLine == <<>>

\* tokenize_to_indices: the known word indices followed by -1, or NULL when no
\* token of the line is a known word
tokenize_to_indices(tokens, line) ==
    LET arr == KnownIndices(tokens, SplitFrom(line, 1, <<>>))
    IN  IF Len(arr) = 0 THEN NullLine ELSE arr \o <<IDX_TERMINATOR>>

\* the cells of cmd_indices before the first -1, at most CMDMAX of them
RECURSIVE CmdArgsFrom(_, _)
CmdArgsFrom(cmd_indices, i) ==
    IF i < CMDMAX /\ At(cmd_indices, i) # IDX_TERMINATOR
    THEN <<At(cmd_indices, i)>> \o CmdArgsFrom(cmd_indices, i + 1)
    ELSE <<>>

\* a double loop that adds each pair in one direction only
RECURSIVE PairAdds_OneWay(_, _, _, _, _)
PairAdds_OneWay(map, vals, reward, a, b) ==
    IF a >= Len(vals) THEN map
    ELSE IF b >= Len(vals) THEN PairAdds_OneWay(map, vals, reward, a + 1, 0)
    ELSE IF a >= b THEN PairAdds_OneWay(map, vals, reward, a, b + 1)
    ELSE PairAdds_OneWay(assoc_add(map, At(vals, a), a, At(vals, b), b, reward, TRUE, TRUE).a,
                         vals, reward, a, b + 1)

\* a double loop that also pairs each argument with itself
RECURSIVE PairAdds_Self(_, _, _, _, _)
PairAdds_Self(map, vals, reward, a, b) ==
    IF a >= Len(vals) THEN map
    ELSE IF b >= Len(vals) THEN PairAdds_Self(map, vals, reward, a + 1, 0)
    ELSE PairAdds_Self(assoc_add(map, At(vals, a), a, At(vals, b), b, reward, TRUE, TRUE).a,
                       vals, reward, a, b + 1)

\* the double loop of assoc_add calls of update_database from (a, b) on
RECURSIVE PairAdds(_, _, _, _, _)
PairAdds(map, vals, reward, a, b) ==
    IF a >= Len(vals) THEN map
    ELSE IF b >= Len(vals) THEN PairAdds(map, vals, reward, a + 1, 0)
    ELSE IF a = b THEN PairAdds(map, vals, reward, a, b + 1)
    ELSE PairAdds(assoc_add(map, At(vals, a), a, At(vals, b), b, reward, TRUE, TRUE).a,
                  vals, reward, a, b + 1)

\* the same double loop when the allocation inside the fail_at-th assoc_add
\* call fails: assoc_add returns -1, update_database does not look at the
\* return value and goes on with the next pair. n counts the calls made so
\* far, failed says whether a call returned -1
RECURSIVE PairAddsNoMem(_, _, _, _, _, _, _, _)
PairAddsNoMem(map, vals, reward, a, b, n, fail_at, failed) ==
    IF a >= Len(vals) THEN [a |-> map, failed |-> failed]
    ELSE IF b >= Len(vals) THEN PairAddsNoMem(map, vals, reward, a + 1, 0, n, fail_at, failed)
    ELSE IF a = b THEN PairAddsNoMem(map, vals, reward, a, b + 1, n, fail_at, failed)
    ELSE LET ok == (n + 1 # fail_at)
             r == assoc_add(map, At(vals, a), a, At(vals, b), b, reward, ok, ok)
         IN  PairAddsNoMem(r.a, vals, reward, a, b + 1, n + 1, fail_at, failed \/ r.rc # 0)

\* while (line[nline] != IDX_TERMINATOR && nline < CMDMAX * 4) nline++
RECURSIVE NLineFrom(_, _)
NLineFrom(line, n) ==
    IF At(line, n) # IDX_TERMINATOR /\ n < CMDMAX * 4 THEN NLineFrom(line, n + 1) ELSE n

\* the redundancy step of update_database on a tokenized line
JudgeLine(line, entries) ==
    is_redundant_line_proximity(line, NLineFrom(line, 0), entries, Len(entries),
                                Percent(REDUNDANCY_THRESHOLD))

\* int reward = 1, overwritten with -PENALTY or REWARD only when a line was tokenized
reward_of(line, redundant) ==
    IF line = NullLine THEN 1 ELSE IF redundant # 0 THEN 0 - PENALTY ELSE REWARD

\* update_database: the association map and the observation log after the
\* call, the reward it returns, and what it computed on the way
update_database(tokens, map, entries, output, cmd_indices) ==
    LET line == tokenize_to_indices(tokens, output)
        j == IF line = NullLine THEN [redundant |-> 0, best_index |-> -1, best_score |-> Zero]
             ELSE JudgeLine(line, entries)
        store == line # NullLine /\ (j.redundant = 0 \/ STORE_REDUNDANT # 0)
        reward == reward_of(line, j.redundant)
        vals == CmdArgsFrom(cmd_indices, 0)
    IN  [assoc |-> IF Len(vals) > 0 THEN PairAdds(map, vals, reward, 0, 0) ELSE map,
         entries |-> IF store THEN Append(entries, line) ELSE entries,
         reward |-> reward, line |-> line, redundant |-> j.redundant,
         best_score |-> j.best_score, stored |-> store]

\* the association updates of update_database when the allocation inside its
\* fail_at-th assoc_add call fails: the map after the call, and whether a call failed
update_database_NoMem(tokens, map, entries, output, cmd_indices, fail_at) ==
    PairAddsNoMem(map, CmdArgsFrom(cmd_indices, 0),
                  reward_of(tokenize_to_indices(tokens, output),
                            update_database(tokens, map, entries, output, cmd_indices).redundant),
                  0, 0, 0, fail_at, FALSE)

\* a path argument of load_database and write_database that is NULL
NullPath == "NULL"
\* the default paths of config.h
TOKENS_FILE == "tokens.txt"
VALUES_FILE == "values.csv"
OBSERVATIONS_FILE == "observations.csv"
\* the three files at their paths; a file that was never written does not exist
NoDisk == [written |-> FALSE, tokens |-> <<>>, values |-> <<>>, obs |-> <<>>]

\* the characters a sequence of fputs / fprintf calls writes
RECURSIVE Concat(_)
Concat(ss) == IF ss = <<>> THEN <<>> ELSE Head(ss) \o Concat(Tail(ss))

\* write_tokens_file: fputs(t), fputc('\n') for every token
write_tokens_file(tokens) == Concat([i \in 1 .. Len(tokens) |-> tokens[i] \o <<"\n">>])

\* fprintf("%d\t%d\t%d\t%d\t%d\n") for the entries es in iteration order
AssocRows(es) ==
    Concat([n \in 1 .. Len(es) |->
               ItoA(es[n].i) \o <<"\t">> \o ItoA(es[n].pi) \o <<"\t">> \o ItoA(es[n].k) \o <<"\t">>
               \o ItoA(es[n].pk) \o <<"\t">> \o ItoA(es[n].val) \o <<"\n">>])

\* write_assoc_file: one row per entry assoc_iter_next yields
write_assoc_file(a) == AssocRows(IterAll(a))

\* one row of write_obs_file from cell j on: the indices before the -1, a space
\* between them, then " -1\n"
RECURSIVE ObsRowFrom(_, _)
ObsRowFrom(row, j) ==
    IF At(row, j) = IDX_TERMINATOR THEN <<" ">> \o ItoA(IDX_TERMINATOR) \o <<"\n">>
    ELSE (IF j # 0 THEN <<" ">> ELSE <<>>) \o ItoA(At(row, j)) \o ObsRowFrom(row, j + 1)

\* write_obs_file
write_obs_file(entries) == Concat([li \in 1 .. Len(entries) |-> ObsRowFrom(entries[li], 0)])

\* write_database: the three files
write_database(tokens, a, entries) ==
    [written |-> TRUE, tokens |-> write_tokens_file(tokens), values |-> write_assoc_file(a),
     obs |-> write_obs_file(entries)]

\* fgets / getline over a file: the lines, each with its '\n' (the last one may
\* have none); no line of the model reaches the 4096 bytes of fgets's buffer
RECURSIVE LinesFrom(_, _, _)
LinesFrom(text, n, cur) ==
    IF n > Len(text) THEN (IF cur = <<>> THEN <<>> ELSE <<cur>>)
    ELSE IF text[n] = "\n" THEN <<Append(cur, "\n")>> \o LinesFrom(text, n + 1, <<>>)
    ELSE LinesFrom(text, n + 1, Append(cur, text[n]))

\* while (n && (buf[n-1] == '\n' || buf[n-1] == '\r')) buf[--n] = '\0'
RECURSIVE Chomp(_)
Chomp(buf) ==
    IF buf # <<>> /\ buf[Len(buf)] \in {"\n", "\r"} THEN Chomp(SubSeq(buf, 1, Len(buf) - 1)) ELSE buf

\* the loop of load_tokens over the lines: empty lines and known words are skipped
RECURSIVE LoadTokenLines(_, _)
LoadTokenLines(tokens, lines) ==
    IF lines = <<>> THEN tokens
    ELSE IF Chomp(Head(lines)) = <<>> \/ find_token_index_unlocked(tokens, Chomp(Head(lines))) >= 0
         THEN LoadTokenLines(tokens, Tail(lines))
         ELSE LoadTokenLines(Append(tokens, Chomp(Head(lines))), Tail(lines))

\* load_tokens
load_tokens(tokens, text) == LoadTokenLines(tokens, LinesFrom(text, 1, <<>>))

\* the first position from p on that holds no white space
RECURSIVE SkipWs(_, _)
SkipWs(text, p) == IF p <= Len(text) /\ text[p] \in Whitespace THEN SkipWs(text, p + 1) ELSE p

\* the first position from p on that holds no digit
RECURSIVE DigitsEnd(_, _)
DigitsEnd(text, p) == IF p <= Len(text) /\ IsDigit(text[p]) THEN DigitsEnd(text, p + 1) ELSE p

\* the position after an optional sign at p
AfterSign(text, p) == IF p <= Len(text) /\ text[p] \in {"-", "+"} THEN p + 1 ELSE p

\* one %d of fscanf from position p: white space, optional sign, digits
scan_int(text, p) ==
    IF DigitsEnd(text, AfterSign(text, SkipWs(text, p))) = AfterSign(text, SkipWs(text, p))
    THEN [ok |-> FALSE, v |-> 0, p |-> SkipWs(text, p)]
    ELSE [ok |-> TRUE,
          v |-> atoi(SubSeq(text, SkipWs(text, p), DigitsEnd(text, AfterSign(text, SkipWs(text, p))) - 1)),
          p |-> DigitsEnd(text, AfterSign(text, SkipWs(text, p)))]

\* fscanf with n conversions left: the values converted and where it stopped
RECURSIVE ScanInts(_, _, _)
ScanInts(text, p, n) ==
    IF n = 0 THEN [vals |-> <<>>, p |-> p]
    ELSE IF ~scan_int(text, p).ok THEN [vals |-> <<>>, p |-> scan_int(text, p).p]
    ELSE [vals |-> <<scan_int(text, p).v>> \o ScanInts(text, scan_int(text, p).p, n - 1).vals,
          p |-> ScanInts(text, scan_int(text, p).p, n - 1).p]

\* while ((c = fgetc(fp)) != '\n' && c != EOF) {}
RECURSIVE SkipLine(_, _)
SkipLine(text, p) ==
    IF p > Len(text) THEN p ELSE IF text[p] = "\n" THEN p + 1 ELSE SkipLine(text, p + 1)

\* the loop of load_values from position p: while fscanf converts five
\* numbers, assoc_add them
RECURSIVE LoadValuesFrom(_, _, _)
LoadValuesFrom(a, text, p) ==
    IF Len(ScanInts(text, p, 5).vals) # 5 THEN a
    ELSE LoadValuesFrom(assoc_add(a, ScanInts(text, p, 5).vals[1], ScanInts(text, p, 5).vals[2],
                                  ScanInts(text, p, 5).vals[3], ScanInts(text, p, 5).vals[4],
                                  ScanInts(text, p, 5).vals[5], TRUE, TRUE).a,
                        text, SkipLine(text, ScanInts(text, p, 5).p))

\* load_values
load_values(a, text) == LoadValuesFrom(a, text, 1)

\* the int array load_observations builds from the tokens of a line: atoi of
\* each, and a -1 added when the last one is not -1
ObsArray(toks) ==
    IF toks = <<>> \/ atoi(toks[Len(toks)]) # IDX_TERMINATOR
    THEN [n \in 1 .. Len(toks) |-> atoi(toks[n])] \o <<IDX_TERMINATOR>>
    ELSE [n \in 1 .. Len(toks) |-> atoi(toks[n])]

\* the loop of load_observations over the lines: a line without a token is skipped
RECURSIVE LoadObsLines(_, _)
LoadObsLines(entries, lines) ==
    IF lines = <<>> THEN entries
    ELSE IF SplitFrom(Head(lines), 1, <<>>) = <<>> THEN LoadObsLines(entries, Tail(lines))
    ELSE LoadObsLines(Append(entries, ObsArray(SplitFrom(Head(lines), 1, <<>>))), Tail(lines))

\* load_observations
load_observations(entries, text) == LoadObsLines(entries, LinesFrom(text, 1, <<>>))

\* load_database skips a file whose path is NULL or empty (a file that does
\* not exist loads nothing)
load_database(tokens, a, entries, files, tokens_path, assoc_path, obs_path) ==
    [token |-> IF tokens_path # NullPath /\ files.written THEN load_tokens(tokens, files.tokens) ELSE tokens,
     assoc |-> IF assoc_path # NullPath /\ files.written THEN load_values(a, files.values) ELSE a,
     obs |-> IF obs_path # NullPath /\ files.written THEN load_observations(entries, files.obs) ELSE entries]

(* ======================= exec.c ======================= *)

Min(x, y) == IF x < y THEN x ELSE y

\* while (ncap < need) ncap *= 2
RECURSIVE GrowCap(_, _)
GrowCap(ncap, need) == IF ncap < need THEN GrowCap(ncap * 2, need) ELSE ncap

\* a for (;;) read loop of execute_command: read() takes up to BufSize
\* bytes at a time until it returns 0 or EAGAIN; fail_at is the number of the
\* realloc call of this loop that fails (0: none). oom says the loop met it.
RECURSIVE ReadLoop(_, _, _, _, _)
ReadLoop(len, cap, pending, nalloc, fail_at) ==
    LET r == Min(pending, BufSize)
    IN  IF r = 0 THEN [len |-> len, cap |-> cap, pending |-> pending, oom |-> FALSE]
        ELSE IF len + r + 1 > cap
        THEN IF nalloc + 1 = fail_at
             THEN [len |-> len, cap |-> cap, pending |-> pending - r, oom |-> TRUE]
             ELSE ReadLoop(len + r, GrowCap(cap * 2, len + r + 1), pending - r, nalloc + 1, fail_at)
        ELSE ReadLoop(len + r, cap, pending - r, nalloc, fail_at)

\* late counts the poll-loop iterations that found elapsed >= RUNTIME or the flag set
NoExec == [pc |-> "idle", rd |-> FALSE, wr |-> FALSE, forked |-> FALSE, cap |-> 0, len |-> 0,
           kill_stage |-> 0, finished |-> 0, ret |-> "none", path |-> "none", sigs |-> <<>>,
           late |-> 0]

NoEnv == [term |-> FALSE, over_time |-> FALSE, pending |-> 0, writes |-> 0,
          pgrp |-> FALSE, killed |-> FALSE]

\* send_signal_tree(pid, sig) is kill(-pid, sig): it reaches the child only once
\* the child has made the process group |pid| with setpgid(0, 0). A SIGKILL that
\* reaches it cannot be caught; what a SIGTERM does is the child's choice.
send_signal_tree(e, sig) == [e EXCEPT !.killed = @ \/ (sig = "SIGKILL" /\ e.pgrp)]

\* the escalation that always sends SIGKILL
EscalationSignal_KillFirst(kill_stage) == "SIGKILL"

\* the signal of the escalation step taken at kill_stage (<= KILL_ATTEMPTS)
EscalationSignal(kill_stage) == IF kill_stage = 0 THEN "SIGTERM" ELSE "SIGKILL"

\* an escalation that stays at the SIGKILL stage
NextStage_Stuck(kill_stage) == IF kill_stage = 0 THEN 1 ELSE kill_stage

\* kill_stage = 1 after the SIGTERM, kill_stage++ after a SIGKILL
NextStage(kill_stage) == IF kill_stage = 0 THEN 1 ELSE kill_stage + 1

\* close(pipefd[0]); NUL-terminate; return buf
ReturnBuffer(e, len, cap) ==
    [e EXCEPT !.pc = "done", !.rd = FALSE, !.len = len, !.cap = cap, !.ret = "buf", !.path = "success"]

\* return NULL with pipefd[0] left as it is
ReturnNull(e, path) == [e EXCEPT !.pc = "done", !.ret = "NULL", !.path = path]

\* a give-up that returns without closing the read end
GiveUp_LeaveOpen(e) == ReturnNull(e, "giveup")

\* the give-up branch: close(pipefd[0]); free(buf); return NULL
GiveUp(e) == ReturnNull([e EXCEPT !.rd = FALSE], "giveup")

\* pipe() fails: nothing was created
ExecPipeFails ==
    /\ ex.pc = "idle"
    /\ ex' = ReturnNull(ex, "pipe")
    /\ UNCHANGED <<child, env>>

\* pipe() succeeds, fork() fails: both ends are closed again
ExecForkFails ==
    /\ ex.pc = "idle"
    /\ ex' = ReturnNull([ex EXCEPT !.rd = FALSE, !.wr = FALSE], "fork")
    /\ UNCHANGED <<child, env>>

\* pipe() and fork() succeed; the parent closes the write end and allocates the
\* output buffer. If that malloc fails it closes the read end, sends SIGKILL
\* to the group and blocks in waitpid(pid, NULL, 0).
\* Between fork() and the SIGKILL the child may or may not have run setpgid.
ExecStart ==
    /\ ex.pc = "idle"
    /\ child' = "running"
    /\ \E m_ok \in BOOLEAN, joined \in BOOLEAN :
         IF m_ok
         THEN /\ ex' = [ex EXCEPT !.pc = "loop", !.rd = TRUE, !.wr = FALSE, !.forked = TRUE,
                                  !.cap = BufSize, !.len = 0, !.kill_stage = 0, !.finished = 0]
              /\ UNCHANGED env
         ELSE /\ ex' = [ex EXCEPT !.pc = "oom_wait", !.rd = FALSE, !.wr = FALSE, !.forked = TRUE,
                                  !.sigs = Append(@, "SIGKILL"), !.path = "malloc"]
              /\ env' = send_signal_tree([env EXCEPT !.pgrp = joined], "SIGKILL")

\* the blocking waitpid of an allocation-failure path returns: it collected the
\* child, or there is no child left to wait for
ExecOomWaitReturns ==
    /\ ex.pc = "oom_wait"
    /\ child \in {"zombie", "lost"}
    /\ child' = IF child = "zombie" THEN "reaped" ELSE child
    /\ ex' = ReturnNull(ex, ex.path)
    /\ UNCHANGED env

\* the blocking waitpid is interrupted by the SIGINT/SIGTERM handler (installed
\* without SA_RESTART): it fails with EINTR, the result is ignored
ExecOomWaitInterrupted ==
    /\ ex.pc = "oom_wait"
    /\ child = "running"
    /\ env' = [env EXCEPT !.term = TRUE]
    /\ ex' = ReturnNull(ex, ex.path)
    /\ UNCHANGED child

\* a poll loop whose escalation does not look at finished
ExecIter_SignalFinished ==
    /\ ex.pc = "loop"
    /\ \E fail_main \in 0 .. 1, fail_drain \in 0 .. 1 :
        LET rd1 == ReadLoop(ex.len, ex.cap, env.pending, 0, fail_main)
            cs  == IF child = "zombie" THEN 0 ELSE IF child = "lost" THEN -1 ELSE 1
            fin == IF cs = 0 THEN 1 ELSE ex.finished
            due == env.over_time \/ env.term
            e1  == [ex EXCEPT !.len = rd1.len, !.cap = rd1.cap, !.finished = fin,
                              !.late = IF due THEN @ + 1 ELSE @]
            e2  == IF due /\ ex.kill_stage <= KILL_ATTEMPTS
                   THEN [e1 EXCEPT !.kill_stage = NextStage(@),
                                   !.sigs = Append(@, EscalationSignal(ex.kill_stage))]
                   ELSE e1
            rd2 == ReadLoop(rd1.len, rd1.cap, rd1.pending, 0, fail_drain)
            env1 == [env EXCEPT !.pending = rd1.pending]
        IN  IF rd1.oom
            THEN /\ ex' = [e1 EXCEPT !.pc = "oom_wait", !.rd = FALSE, !.path = "realloc",
                                     !.finished = ex.finished, !.sigs = Append(@, "SIGKILL")]
                 /\ env' = send_signal_tree(env1, "SIGKILL")
                 /\ UNCHANGED child
            ELSE IF cs < 0
            THEN /\ ex' = ReturnNull([e1 EXCEPT !.rd = FALSE], "waitpid")
                 /\ env' = env1
                 /\ UNCHANGED child
            ELSE IF due /\ ex.kill_stage > KILL_ATTEMPTS
            THEN /\ ex' = GiveUp(e1)
                 /\ env' = env1
                 /\ UNCHANGED child
            ELSE IF fin = 1
            THEN /\ ex' = ReturnBuffer(e2, rd2.len, rd2.cap)
                 /\ env' = [env EXCEPT !.pending = rd2.pending]
                 /\ child' = "reaped"
            ELSE /\ ex' = e2
                 /\ env' = IF due THEN send_signal_tree(env1, EscalationSignal(ex.kill_stage))
                           ELSE env1
                 /\ UNCHANGED child

\* one iteration of the poll loop
ExecIter ==
    /\ ex.pc = "loop"
    /\ \E fail_main \in 0 .. 1, fail_drain \in 0 .. 1 :
        LET rd1 == ReadLoop(ex.len, ex.cap, env.pending, 0, fail_main)
            cs  == IF child = "zombie" THEN 0 ELSE IF child = "lost" THEN -1 ELSE 1
            fin == IF cs = 0 THEN 1 ELSE ex.finished
            due == env.over_time \/ env.term
            e1  == [ex EXCEPT !.len = rd1.len, !.cap = rd1.cap, !.finished = fin,
                              !.late = IF due THEN @ + 1 ELSE @]
            esc == fin = 0 /\ due
            rd2 == ReadLoop(rd1.len, rd1.cap, rd1.pending, 0, fail_drain)
            env1 == [env EXCEPT !.pending = rd1.pending]
        IN  IF rd1.oom
            THEN \* realloc failed: free, close, SIGKILL the group, blocking waitpid
                 /\ ex' = [e1 EXCEPT !.pc = "oom_wait", !.rd = FALSE, !.path = "realloc",
                                     !.finished = ex.finished, !.sigs = Append(@, "SIGKILL")]
                 /\ env' = send_signal_tree(env1, "SIGKILL")
                 /\ UNCHANGED child
            ELSE IF cs < 0
            THEN \* waitpid failure: close, free, return NULL
                 /\ ex' = ReturnNull([e1 EXCEPT !.rd = FALSE], "waitpid")
                 /\ env' = env1
                 /\ UNCHANGED child
            ELSE IF esc /\ ex.kill_stage <= KILL_ATTEMPTS
            THEN \* SIGTERM at stage 0, SIGKILL at stages 1 .. KILL_ATTEMPTS
                 /\ ex' = [e1 EXCEPT !.kill_stage = NextStage(@),
                                     !.sigs = Append(@, EscalationSignal(ex.kill_stage))]
                 /\ env' = send_signal_tree(env1, EscalationSignal(ex.kill_stage))
                 /\ UNCHANGED child
            ELSE IF esc
            THEN /\ ex' = GiveUp(e1)
                 /\ env' = env1
                 /\ UNCHANGED child
            ELSE IF fin = 1
            THEN \* read until EOF, close, terminate the buffer, return it
                 /\ ex' = ReturnBuffer(e1, rd2.len, rd2.cap)
                 /\ env' = [env EXCEPT !.pending = rd2.pending]
                 /\ child' = "reaped"
            ELSE /\ ex' = e1
                 /\ env' = env1
                 /\ UNCHANGED child

(* the world around one execute_command call *)

WriteSizes == {1, BufSize}

\* setpgid(0, 0) in the child
ChildSetpgid ==
    /\ child = "running" /\ ~env.pgrp
    /\ env' = [env EXCEPT !.pgrp = TRUE]
    /\ UNCHANGED <<ex, child>>

\* the command writes to its stdout or stderr, which the child redirected after setpgid
ChildWrites ==
    /\ ex.pc = "loop" /\ child = "running" /\ env.pgrp /\ env.writes < MaxWrites
    /\ \E n \in WriteSizes : env' = [env EXCEPT !.pending = @ + n, !.writes = @ + 1]
    /\ UNCHANGED <<ex, child>>

\* the child terminates, by itself or by a signal it was sent
ChildExits ==
    /\ child = "running"
    /\ child' = "zombie"
    /\ UNCHANGED <<ex, env>>

\* a SIGKILL that reached the child terminates it
ChildKilled ==
    /\ child = "running" /\ env.killed
    /\ child' = "zombie"
    /\ UNCHANGED <<ex, env>>

\* the child terminates and the kernel discards it at once (SIGCHLD ignored by
\* the process): waitpid then fails with ECHILD
ChildDiscarded ==
    /\ child = "running"
    /\ child' = "lost"
    /\ UNCHANGED <<ex, env>>

\* RUNTIME seconds have passed since t_start
RuntimeElapses ==
    /\ ex.pc = "loop" /\ ~env.over_time
    /\ env' = [env EXCEPT !.over_time = TRUE]
    /\ UNCHANGED <<ex, child>>

\* signal_handler runs: SIGINT or SIGTERM
SignalArrives ==
    /\ ex.pc # "done" /\ ~env.term
    /\ env' = [env EXCEPT !.term = TRUE]
    /\ UNCHANGED <<ex, child>>

(* ======================= trend.c ======================= *)

\* lrnvals[i], i counted from 0
Sample(t, i) == t.lrnvals[i + 1]

\* for (i = from; i < to; ++i) sum += lrnvals[i]
RECURSIVE SumSlots(_, _, _)
SumSlots(t, from, to) == IF from >= to THEN 0 ELSE Sample(t, from) + SumSlots(t, from + 1, to)

\* while (idx < 0) idx += window_size
RECURSIVE WrapIdx(_, _)
WrapIdx(idx, window_size) == IF idx < 0 THEN WrapIdx(idx + window_size, window_size) ELSE idx

\* for (i = from; i < to; ++i) sum += lrnvals[wrapped(index - 1 - i)]
RECURSIVE SumBack(_, _, _)
SumBack(t, from, to) ==
    IF from >= to THEN 0
    ELSE Sample(t, WrapIdx(t.index - 1 - from, t.window_size)) + SumBack(t, from + 1, to)

compute_average(t) ==
    IF t.count <= 0 THEN Zero ELSE [num |-> SumSlots(t, 0, t.count), den |-> t.count]

compute_recent_avg(t, k) ==
    IF k <= 0 \/ t.count <= 0 THEN Zero ELSE [num |-> SumBack(t, 0, k), den |-> k]

compute_prior_avg(t, k_recent) ==
    LET n == t.count
        prior == n - k_recent
    IN  IF prior <= 0 THEN Zero ELSE [num |-> SumBack(t, k_recent, n), den |-> prior]

\* calloc(window_size, sizeof(int)); index = count = 0; moving_average = 0.0
init_trend_tracker ==
    [window_size |-> TREND_WINDOW_SIZE, lrnvals |-> [i \in 1 .. TREND_WINDOW_SIZE |-> 0],
     index |-> 0, count |-> 0, moving_average |-> Zero]

destroy_trend_tracker(t) ==
    [window_size |-> 0, lrnvals |-> <<>>, index |-> 0, count |-> 0, moving_average |-> Zero]

\* a push that caches the average of the samples before the new one
update_trend_tracker_StaleAverage(t, lrnval) ==
    IF t.lrnvals = <<>> THEN t
    ELSE [t EXCEPT !.lrnvals[t.index + 1] = lrnval,
                   !.index = (t.index + 1) % t.window_size,
                   !.count = IF t.count < t.window_size THEN t.count + 1 ELSE t.count,
                   !.moving_average = compute_average(t)]

\* a push that never advances count
update_trend_tracker_NoCount(t, lrnval) ==
    LET t1 == [t EXCEPT !.lrnvals[t.index + 1] = lrnval, !.index = (t.index + 1) % t.window_size]
    IN  [t1 EXCEPT !.moving_average = compute_average(t1)]

update_trend_tracker(t, lrnval) ==
    IF t.lrnvals = <<>> THEN t
    ELSE LET t1 == [t EXCEPT !.lrnvals[t.index + 1] = lrnval,
                             !.index = (t.index + 1) % t.window_size,
                             !.count = IF t.count < t.window_size THEN t.count + 1 ELSE t.count]
         IN  [t1 EXCEPT !.moving_average = compute_average(t1)]

get_moving_average(t) == t.moving_average

\* delta = recent - prior against EPS = 0.5: +1 when delta > 1/2, -1 when
\* delta < -1/2 (both denominators are positive)
TrendSign(recent, prior) ==
    LET d2 == 2 * (recent.num * prior.den - prior.num * recent.den)
        e  == recent.den * prior.den
    IN  IF d2 > e THEN 1 ELSE IF d2 < 0 - e THEN -1 ELSE 0

\* a verdict that ignores the threshold's sign
analyze_learning_trend_Up(t) ==
    IF t.count < 2 THEN 0 ELSE 1

analyze_learning_trend(t) ==
    LET n == t.count
        k_recent == IF n \div 2 <= 0 THEN 1 ELSE n \div 2
    IN  IF n < 2 THEN 0
        ELSE TrendSign(compute_recent_avg(t, k_recent), compute_prior_avg(t, k_recent))

(* ======================= threads.h: the tuner ======================= *)

\* a setter that does not clamp
tuner_set_length_locked_NoClamp(s, new_len) == [s EXCEPT !.length = new_len]

tuner_set_length_locked(s, new_len) ==
    LET a == IF new_len < CMDMIN THEN CMDMIN ELSE new_len
        b == IF a > CMDMAX THEN CMDMAX ELSE a
    IN  [s EXCEPT !.length = b]

NoTune == [adj |-> 0, cur |-> 0]

\* one turn of the tuner's while loop with the flag clear: analyze, adjust, sleep
TunerStep ==
    /\ tpc = "run" /\ ~env.term
    /\ LET adj == analyze_learning_trend(tracker)
       IN  /\ settings' = IF adj # 0
                          THEN tuner_set_length_locked(settings, settings.length + (IF adj > 0 THEN 1 ELSE -1))
                          ELSE settings
           /\ tun' = [adj |-> adj, cur |-> settings.length]
    /\ UNCHANGED <<tracker, feed, tpc, env>>

\* the loop test finds termination_requested set: return NULL
TunerExit ==
    /\ tpc = "run" /\ env.term
    /\ tpc' = "exited"
    /\ UNCHANGED <<tracker, feed, tun, settings, env>>

(* ======================= the specifications ======================= *)

NoOp == [key |-> <<0, 0, 0, 0>>, delta |-> 0, rc |-> 0, before |-> 0]
NoSim == [num |-> -1, den |-> 1]
NoCmd == [N |-> 0, length |-> 0, scope |-> 0, argc |-> -1, out_cmd |-> <<>>]
NoUpd == [cmd |-> <<>>, out |-> <<>>, line |-> <<>>, redundant |-> 0, reward |-> 0,
          best_score |-> Zero, stored |-> FALSE, nobs |-> 0, rerun |-> FALSE, nomem |-> FALSE]

\* each part of the program before it is used
AssocIdle == assoc = assoc_init(0) /\ aop = NoOp
SimIdle == simA = <<>> /\ simB = <<>> /\ simOut = NoSim
LearnIdle ==
    /\ token = <<>> /\ settings = [length |-> CMDMIN, scope |-> SRCHMIN] /\ obs = <<>>
    /\ pc = "construct" /\ cc = NoCmd /\ upd = NoUpd /\ nupd = 0
ExecIdle == ex = NoExec /\ child = "none" /\ env = NoEnv

Workers == 1 .. NumWorkers
NoFeed == [mode |-> "none", zeros |-> TRUE, npush |-> 0, last |-> <<>>]
NoMain == [pc |-> "start", i |-> 0, num_threads |-> 0, tuner_tid |-> FALSE, max_concurrent |-> 0]
TrendIdle == tracker = init_trend_tracker /\ feed = NoFeed /\ tun = NoTune
\* the threads: the workers, then the tuner, then main; NoThread owns a free mutex
NoThread == 0
TunerId == NumWorkers + 1
MainId == NumWorkers + 2
Mutexes == {"words", "observations", "settings", "tracker", "log"}
NoLoc == [ret |-> "none", output |-> <<>>, want_len |-> 0, scope_pct |-> 0,
          toks |-> <<>>, pass |-> 0, t |-> 0, count |-> 0, line |-> <<>>,
          redundant |-> 0, reward |-> 0, n |-> 0, tmp |-> 0]
\* the keys a command of the thread runs can update
PairKeySpace == {<<i, pi, k, pk>> : i \in 0 .. 1, pi \in 0 .. 1, k \in 0 .. 1, pk \in 0 .. 1}
NoSaved == [token |-> <<>>, values |-> {}, obs |-> <<>>]
\* sums: per key, the rewards of the update_database calls that returned;
\* saved: the state write_database last saved; tunes: the rounds in which the
\* tuner changed the length
NoHist == [sums |-> [key \in PairKeySpace |-> 0], saved |-> NoSaved, tunes |-> 0]
LocksIdle ==
    /\ mutex = [m \in Mutexes |-> NoThread]
    /\ loc = [w \in Workers |-> NoLoc]
    /\ hist = NoHist
ThreadsIdle ==
    /\ sem = 0 /\ wpc = [w \in Workers |-> "unborn"] /\ wcmd = [w \in Workers |-> <<>>]
    /\ mpc = NoMain /\ disk = NoDisk
    /\ LocksIdle
SysIdle == ThreadsIdle /\ tpc = "unborn"

(* ---------------- the association map on its own ---------------- *)

\* the keys the association-map runs add to
AssocKeys == {<<0, 0, 1, 1>>, <<1, 1, 0, 0>>, <<0, 1, 1, 0>>}

\* nbuckets_hint values given to assoc_init: 0 (the default, as init_words
\* passes it) and 1 (the smallest table, so that adds rehash)
AssocHints == {0, 1}

Deltas == (0 - MaxVal) .. MaxVal

Abs(x) == IF x < 0 THEN 0 - x ELSE x

GetKey(a, key) == assoc_get(a, key[1], key[2], key[3], key[4])

InitAssoc ==
    /\ \E h \in AssocHints : assoc = assoc_init(h)
    /\ aop = NoOp
    /\ SimIdle /\ LearnIdle /\ ExecIdle /\ TrendIdle /\ SysIdle

\* one assoc_add call whose allocations succeed
DoAssocAdd ==
    \E key \in AssocKeys, d \in Deltas :
        LET before == GetKey(assoc, key)
            r == assoc_add(assoc, key[1], key[2], key[3], key[4], d, TRUE, TRUE)
        IN  /\ Abs(before + d) <= MaxVal
            /\ assoc' = r.a
            /\ aop' = [key |-> key, delta |-> d, rc |-> r.rc, before |-> before]
            /\ UNCHANGED <<simVars, learnVars, execVars, trendVars, sysVars>>

\* one assoc_add call in which the calloc of resize or the malloc of the entry fails
DoAssocAddNoMem ==
    \E key \in AssocKeys, d \in Deltas, rs_ok \in BOOLEAN, m_ok \in BOOLEAN :
        LET before == GetKey(assoc, key)
            r == assoc_add(assoc, key[1], key[2], key[3], key[4], d, rs_ok, m_ok)
        IN  /\ ~(rs_ok /\ m_ok)
            /\ Abs(before + d) <= MaxVal
            /\ assoc' = r.a
            /\ aop' = [key |-> key, delta |-> d, rc |-> r.rc, before |-> before]
            /\ UNCHANGED <<simVars, learnVars, execVars, trendVars, sysVars>>

NextAssoc == DoAssocAdd \/ DoAssocAddNoMem

SpecAssoc == InitAssoc /\ [][NextAssoc]_vars

(* ---------------- the similarity on its own ---------------- *)

WordIdx == 0 .. (MaxWords - 1)

\* all arrays of word indices of length 0 .. n
ArraysUpTo(n) == UNION {[1 .. m -> WordIdx] : m \in 0 .. n}

InitSim ==
    /\ simA \in ArraysUpTo(MaxLineLen)
    /\ simB \in ArraysUpTo(MaxLineLen)
    /\ simOut = NoSim
    /\ AssocIdle /\ LearnIdle /\ ExecIdle /\ TrendIdle /\ SysIdle

\* array_similarity_proximity(simA, |simA|, simB, |simB|)
CallArraySim ==
    /\ simOut = NoSim
    /\ simOut' = array_similarity_proximity(simA, Len(simA), simB, Len(simB))
    /\ UNCHANGED <<simA, simB, assocVars, learnVars, execVars, trendVars, sysVars>>

\* the same arrays as -1 terminated lines, through line_similarity_proximity
\* with caps that cover both lines
CallLineSim ==
    /\ simOut = NoSim
    /\ simOut' = line_similarity_proximity(simA \o <<-1>>, MaxLineLen + 1, simB \o <<-1>>, MaxLineLen + 1)
    /\ UNCHANGED <<simA, simB, assocVars, learnVars, execVars, trendVars, sysVars>>

NextSim == CallArraySim \/ CallLineSim

SpecSim == InitSim /\ [][NextSim]_vars

(* ---------------- one worker's synthesize / execute / learn loop ---------------- *)

\* the words the vocabulary is seeded with, in order
WordNames == << <<"a">>, <<"b">>, <<"a", "b">>, <<"b", "a">>, <<"b", "b">> >>

\* what a command can print
Outputs ==
    { <<>>, <<" ">>, <<"b", "a">>, <<"a">>, <<"a", " ", "b">>, <<"b", "\n", "a">>,
      <<"a", " ", "a", " ", "b">> }

\* settings main can start with (both clamped by main)
LengthChoices == {CMDMIN, 2, 3, CMDMAX}
ScopeChoices == {SRCHMIN, 50, SRCHMAX}

InitLearn ==
    /\ \E N \in 0 .. MaxWords : token = SubSeq(WordNames, 1, N)
    /\ settings \in [length : LengthChoices, scope : ScopeChoices]
    /\ obs = <<>>
    /\ pc = "construct" /\ cc = NoCmd /\ upd = NoUpd /\ nupd = 0
    /\ AssocIdle /\ SimIdle /\ ExecIdle /\ TrendIdle /\ SysIdle

\* worker_thread: construct_command; with argc <= 0 the worker sleeps and retries
Construct ==
    /\ pc = "construct"
    /\ \E r \in construct_command(assoc, Len(token), settings, TRUE) :
         /\ cc' = [N |-> Len(token), length |-> settings.length, scope |-> settings.scope,
                   argc |-> r.argc, out_cmd |-> r.out_cmd]
         /\ pc' = IF r.argc <= 0 THEN "construct" ELSE "execute"
    /\ UNCHANGED <<token, settings, obs, upd, nupd, assocVars, simVars, execVars, trendVars, sysVars>>

\* construct_command when the malloc of its candidate list fails
ConstructNoMem ==
    /\ pc = "construct" /\ Len(token) > 0
    /\ \E r \in construct_command(assoc, Len(token), settings, FALSE) :
         /\ cc' = [N |-> Len(token), length |-> settings.length, scope |-> settings.scope,
                   argc |-> r.argc, out_cmd |-> r.out_cmd]
         /\ pc' = IF r.argc <= 0 THEN "construct" ELSE "execute"
    /\ UNCHANGED <<token, settings, obs, upd, nupd, assocVars, simVars, execVars, trendVars, sysVars>>

\* execute_command returned NULL: no update, next iteration
ExecFailed ==
    /\ pc = "execute"
    /\ pc' = "construct"
    /\ UNCHANGED <<token, settings, obs, cc, upd, nupd, assocVars, simVars, execVars, trendVars, sysVars>>

\* the tokens of toks that are no known word, each once, in order
RECURSIVE NewWords(_, _)
NewWords(tokens, toks) ==
    IF toks = <<>> THEN <<>>
    ELSE IF find_token_index_unlocked(tokens, Head(toks)) >= 0 THEN NewWords(tokens, Tail(toks))
    ELSE <<Head(toks)>> \o NewWords(Append(tokens, Head(toks)), Tail(toks))

\* an iteration whose update_database adds the unknown tokens of the output
\* to the vocabulary
Learn_AddsWords ==
    /\ pc = "execute" /\ nupd < MaxUpdates
    /\ \E output \in Outputs :
         LET u == update_database(token, assoc, obs, output, cc.out_cmd)
         IN  /\ assoc' = u.assoc
             /\ obs' = u.entries
             /\ upd' = [cmd |-> cc.out_cmd, out |-> output, line |-> u.line, redundant |-> u.redundant,
                        reward |-> u.reward, best_score |-> u.best_score, stored |-> u.stored,
                        nobs |-> Len(obs),
                        rerun |-> (upd.cmd = cc.out_cmd /\ upd.out = output /\ upd.stored),
                        nomem |-> FALSE]
             /\ tracker' = update_trend_tracker(tracker, u.reward)
             /\ token' = token \o NewWords(token, SplitFrom(output, 1, <<>>))
    /\ nupd' = nupd + 1
    /\ pc' = "construct"
    /\ UNCHANGED <<settings, cc, aop, feed, tun, simVars, execVars, sysVars>>

\* execute_command returned output: update_database(words, observations, output, cmd_indices),
\* then update_trend_tracker(tracker, lrnval)
Learn ==
    /\ pc = "execute" /\ nupd < MaxUpdates
    /\ \E output \in Outputs :
         LET u == update_database(token, assoc, obs, output, cc.out_cmd)
         IN  /\ assoc' = u.assoc
             /\ obs' = u.entries
             /\ upd' = [cmd |-> cc.out_cmd, out |-> output, line |-> u.line, redundant |-> u.redundant,
                        reward |-> u.reward, best_score |-> u.best_score, stored |-> u.stored,
                        nobs |-> Len(obs),
                        rerun |-> (upd.cmd = cc.out_cmd /\ upd.out = output /\ upd.stored),
                        nomem |-> FALSE]
             /\ tracker' = update_trend_tracker(tracker, u.reward)
    /\ nupd' = nupd + 1
    /\ pc' = "construct"
    /\ UNCHANGED <<token, settings, cc, aop, feed, tun, simVars, execVars, sysVars>>

\* what update_database and the push do besides the association updates; u is
\* what update_database computed
LearnRest(u, output) ==
    /\ obs' = u.entries
    /\ upd' = [cmd |-> cc.out_cmd, out |-> output, line |-> u.line, redundant |-> u.redundant,
               reward |-> u.reward, best_score |-> u.best_score, stored |-> u.stored,
               nobs |-> Len(obs),
               rerun |-> (upd.cmd = cc.out_cmd /\ upd.out = output /\ upd.stored),
               nomem |-> TRUE]
    /\ tracker' = update_trend_tracker(tracker, u.reward)

\* the same iteration when an allocation fails inside one assoc_add call of
\* update_database: the worker gets the reward back and pushes it as usual
LearnNoMem ==
    /\ pc = "execute" /\ nupd < MaxUpdates
    /\ \E output \in Outputs, fail_at \in 1 .. (MaxWords * (MaxWords - 1)) :
         /\ update_database_NoMem(token, assoc, obs, output, cc.out_cmd, fail_at).failed
         /\ assoc' = update_database_NoMem(token, assoc, obs, output, cc.out_cmd, fail_at).a
         /\ LearnRest(update_database(token, assoc, obs, output, cc.out_cmd), output)
    /\ nupd' = nupd + 1
    /\ pc' = "construct"
    /\ UNCHANGED <<token, settings, cc, aop, feed, tun, simVars, execVars, sysVars>>

NextLearn == Construct \/ ConstructNoMem \/ ExecFailed \/ Learn

SpecLearn == InitLearn /\ [][NextLearn]_vars

\* ---------------- construct_command called with scope 0 ----------------

\* a vocabulary of N distinct words: the decimal numbers 0 .. N-1
NumberWords(N) == [i \in 1 .. N |-> ItoA(i - 1)]

InitScope ==
    /\ \E N \in 1 .. MaxVocab : token = NumberWords(N)
    /\ settings \in [length : {CMDMIN, CMDMIN + 1}, scope : {0}]
    /\ obs = <<>>
    /\ pc = "construct" /\ cc = NoCmd /\ upd = NoUpd /\ nupd = 0
    /\ AssocIdle /\ SimIdle /\ ExecIdle /\ TrendIdle /\ SysIdle

NextScope == Construct \/ ConstructNoMem

SpecScope == InitScope /\ [][NextScope]_vars

\* the worker loop with allocation failures inside update_database, on a
\* vocabulary of two words (the smallest with a pair to update)
InitNoMem ==
    /\ token = SubSeq(WordNames, 1, 2)
    /\ settings \in [length : LengthChoices, scope : ScopeChoices]
    /\ obs = <<>>
    /\ pc = "construct" /\ cc = NoCmd /\ upd = NoUpd /\ nupd = 0
    /\ AssocIdle /\ SimIdle /\ ExecIdle /\ TrendIdle /\ SysIdle

NextNoMem == Construct \/ ConstructNoMem \/ ExecFailed \/ Learn \/ LearnNoMem

SpecNoMem == InitNoMem /\ [][NextNoMem]_vars

(* ---------------- save at shutdown, load at the next start ---------------- *)

\* vocabularies of the persistence runs, as seeded from the names of the files
\* in PATH (a file name may hold any character but '/' and NUL)
PersistWords ==
    { <<>>, << <<"a">> >>, << <<"a">>, <<"b">> >>, << <<"a">>, <<"a", "\n", "b">> >>,
      << <<"b", "\r">>, <<"a">> >> }

\* the entries of the map whose value is not zero
NonZero(a) == {IterAll(a)[n] : n \in {m \in 1 .. Len(IterAll(a)) : IterAll(a)[m].val # 0}}

InitPersist ==
    /\ token \in PersistWords
    /\ settings \in [length : {CMDMIN, 2}, scope : {SRCHMAX}]
    /\ obs = <<>>
    /\ pc = "construct" /\ cc = NoCmd /\ upd = NoUpd /\ nupd = 0
    /\ AssocIdle /\ SimIdle /\ ExecIdle /\ TrendIdle
    /\ sem = 0 /\ wpc = [w \in Workers |-> "unborn"] /\ wcmd = [w \in Workers |-> <<>>]
    /\ tpc = "unborn" /\ mpc = [NoMain EXCEPT !.pc = "run"]
    /\ disk = NoDisk /\ LocksIdle

\* what the persistence steps leave alone
PersistRest ==
    UNCHANGED <<settings, cc, upd, nupd, aop, simVars, execVars, trendVars, sem, wpc, wcmd, tpc, loc>>

\* main: write_database(&words, &observations, TOKENS_FILE, VALUES_FILE,
\* OBSERVATIONS_FILE) once the worker has stopped
PersistSave ==
    /\ mpc.pc = "run" /\ pc = "construct"
    /\ disk' = write_database(token, assoc, obs)
    /\ hist' = [hist EXCEPT !.saved = [token |-> token, values |-> NonZero(assoc), obs |-> obs]]
    /\ mpc' = [mpc EXCEPT !.pc = "saved"]
    /\ pc' = "stopped"
    /\ UNCHANGED <<token, assoc, obs, mutex>>
    /\ PersistRest

\* main: cleanup_database; then, in the next run, init_words and init_observations
PersistRestart ==
    /\ mpc.pc = "saved"
    /\ token' = <<>> /\ obs' = <<>> /\ assoc' = assoc_init(0)
    /\ mpc' = [mpc EXCEPT !.pc = "fresh"]
    /\ UNCHANGED <<pc, disk, hist, mutex>>
    /\ PersistRest

\* main: load_database(&words, &observations, NULL, NULL, NULL)
PersistLoadNull ==
    /\ mpc.pc = "fresh"
    /\ token' = load_database(token, assoc, obs, disk, NullPath, NullPath, NullPath).token
    /\ assoc' = load_database(token, assoc, obs, disk, NullPath, NullPath, NullPath).assoc
    /\ obs' = load_database(token, assoc, obs, disk, NullPath, NullPath, NullPath).obs
    /\ mpc' = [mpc EXCEPT !.pc = "loaded_null"]
    /\ UNCHANGED <<pc, disk, hist, mutex>>
    /\ PersistRest

\* pthread_mutex_lock / pthread_mutex_unlock by main inside the load functions
\* (load_tokens and load_observations lock around each line they add; the
\* lines of one file are taken together here, no other thread exists yet)
PersistLock(m, from, to) ==
    /\ mpc.pc = from /\ mutex[m] = NoThread
    /\ mutex' = [mutex EXCEPT ![m] = MainId]
    /\ mpc' = [mpc EXCEPT !.pc = to]
    /\ UNCHANGED <<token, assoc, obs, pc, disk, hist>>
    /\ PersistRest

PersistUnlock(m, from, to) ==
    /\ mpc.pc = from /\ mutex[m] = MainId
    /\ mutex' = [mutex EXCEPT ![m] = NoThread]
    /\ mpc' = [mpc EXCEPT !.pc = to]
    /\ UNCHANGED <<token, assoc, obs, pc, disk, hist>>
    /\ PersistRest

\* load_database(&words, &observations, TOKENS_FILE, VALUES_FILE,
\* OBSERVATIONS_FILE): load_tokens
PersistLoadTokens ==
    /\ mpc.pc = "tokens_locked"
    /\ token' = load_database(token, assoc, obs, disk, TOKENS_FILE, NullPath, NullPath).token
    /\ mpc' = [mpc EXCEPT !.pc = "tokens_loaded"]
    /\ UNCHANGED <<assoc, obs, pc, disk, hist, mutex>>
    /\ PersistRest

\* then load_values, which takes no lock
PersistLoadValues ==
    /\ mpc.pc = "values"
    /\ assoc' = load_database(token, assoc, obs, disk, NullPath, VALUES_FILE, NullPath).assoc
    /\ mpc' = [mpc EXCEPT !.pc = "observations"]
    /\ UNCHANGED <<token, obs, pc, disk, hist, mutex>>
    /\ PersistRest

\* then load_observations
PersistLoadObs ==
    /\ mpc.pc = "observations_locked"
    /\ obs' = load_database(token, assoc, obs, disk, NullPath, NullPath, OBSERVATIONS_FILE).obs
    /\ mpc' = [mpc EXCEPT !.pc = "observations_loaded"]
    /\ UNCHANGED <<token, assoc, pc, disk, hist, mutex>>
    /\ PersistRest

NextPersist ==
    \/ Construct
    \/ ExecFailed
    \/ Learn
    \/ PersistSave
    \/ PersistRestart
    \/ PersistLoadNull
    \/ PersistLock("words", "fresh", "tokens_locked")
    \/ PersistLoadTokens
    \/ PersistUnlock("words", "tokens_loaded", "values")
    \/ PersistLoadValues
    \/ PersistLock("observations", "observations", "observations_locked")
    \/ PersistLoadObs
    \/ PersistUnlock("observations", "observations_loaded", "loaded_paths")

SpecPersist == InitPersist /\ [][NextPersist]_vars

(* ---------------- the trend tracker and the tuner ---------------- *)

\* the sample pushed last
Newest(t) == Sample(t, WrapIdx(t.index - 1, t.window_size))

\* the filled samples, oldest first
InPushOrder(t) == [j \in 1 .. t.count |-> Sample(t, WrapIdx(t.index - 1 - (t.count - j), t.window_size))]

\* samples of a mixed run, and the first sample of a rising run
SampleVals == {0, 1}
TrendStarts == {0 - PENALTY, 1}

\* --length values given on the command line; main clamps them
WantLengths == {CMDMIN - 1, CMDMIN, 5, CMDMAX, CMDMAX + 1}

\* if (want < lo) want = lo; if (want > hi) want = hi;
main_clamp(want, lo, hi) ==
    LET a == IF want < lo THEN lo ELSE want
    IN  IF a > hi THEN hi ELSE a

InitTune ==
    /\ tracker = init_trend_tracker /\ feed = NoFeed /\ tun = NoTune
    /\ \E want \in WantLengths :
         settings = [length |-> main_clamp(want, CMDMIN, CMDMAX), scope |-> main_clamp(50, SRCHMIN, SRCHMAX)]
    /\ token = <<>> /\ obs = <<>> /\ pc = "construct" /\ cc = NoCmd /\ upd = NoUpd /\ nupd = 0
    /\ ThreadsIdle /\ tpc = "run"
    /\ AssocIdle /\ SimIdle /\ ExecIdle

\* update_trend_tracker(tracker, v) as the next sample of a run of the given kind
Push(v, mode) ==
    /\ feed.npush < MaxPushes
    /\ tracker' = update_trend_tracker(tracker, v)
    /\ feed' = [mode |-> mode, zeros |-> (feed.zeros /\ v = 0), npush |-> feed.npush + 1,
                last |-> IF Len(feed.last) < TREND_WINDOW_SIZE THEN Append(feed.last, v)
                         ELSE Append(Tail(feed.last), v)]
    /\ UNCHANGED <<tun, settings, token, obs, pc, cc, upd, nupd, assocVars, simVars, execVars, sysVars>>

PushSample ==
    /\ feed.mode \in {"none", "samples"}
    /\ \E v \in SampleVals : Push(v, "samples")

\* every sample one more than the one before
PushRising ==
    /\ feed.mode \in {"none", "rising"}
    /\ \E v \in (IF feed.npush = 0 THEN TrendStarts ELSE {Newest(tracker) + 1}) : Push(v, "rising")

\* after a rising run: every sample one less than the one before
PushFalling ==
    /\ feed.mode \in {"rising", "falling"}
    /\ Push(Newest(tracker) - 1, "falling")

NextTune ==
    \/ PushSample \/ PushRising \/ PushFalling
    \/ (TunerStep /\ UNCHANGED <<token, obs, pc, cc, upd, nupd, ex, child, assocVars, simVars,
                                 sem, wpc, wcmd, mpc, disk, mutex, loc, hist>>)

SpecTune == InitTune /\ [][NextTune]_vars

(* ---------------- main, the workers and the tuner ---------------- *)

\* the vocabulary of the trivial-command runs: "true" and "false"
TrivialWords == << <<"t", "r", "u", "e">>, <<"f", "a", "l", "s", "e">> >>

\* what the command of the thread runs can print: nothing when it runs true
\* or false, nothing or a word otherwise
SysOutputs(words, cmd_indices) ==
    IF At(words, At(cmd_indices, 0)) \in {TrivialWords[1], TrivialWords[2]}
    THEN {<<>>}
    ELSE {<<>>, <<"a">>}

\* sem_post(&thread_sem) that posts nothing
sem_post_None(s) == s

sem_post(s) == s + 1

\* a join that returns before the thread has terminated
JoinReady_NoWait(state) == TRUE

\* pthread_join returns once the thread has terminated
JoinReady(state) == state = "exited"

\* assoc_free
assoc_free(a) == [buckets |-> <<>>, nbuckets |-> 0, nentries |-> 0]

\* main after init_thread_sem(num_threads), before the first pthread_create
InitSys ==
    /\ \E N \in 0 .. MaxSeed : token = SubSeq(WordNames, 1, N)
    /\ settings = [length |-> main_clamp(1, CMDMIN, CMDMAX), scope |-> main_clamp(50, SRCHMIN, SRCHMAX)]
    /\ obs = <<>> /\ pc = "construct" /\ cc = NoCmd /\ upd = NoUpd /\ nupd = 0
    /\ TrendIdle
    /\ \E n \in 1 .. NumWorkers :
         /\ sem = n
         /\ mpc = [pc |-> "spawn", i |-> 0, num_threads |-> n, tuner_tid |-> FALSE, max_concurrent |-> n]
    /\ wpc = [w \in Workers |-> "unborn"] /\ wcmd = [w \in Workers |-> <<>>]
    /\ tpc = "unborn" /\ disk = NoDisk /\ LocksIdle
    /\ AssocIdle /\ SimIdle /\ ExecIdle

\* main: pthread_create of worker i; when it fails only the started ones are joined
MainCreateWorker ==
    /\ mpc.pc = "spawn" /\ mpc.i < mpc.num_threads
    /\ \E ok \in BOOLEAN :
         IF ok
         THEN /\ wpc' = [wpc EXCEPT ![mpc.i + 1] = "sem_wait"]
              /\ mpc' = [mpc EXCEPT !.i = @ + 1]
         ELSE /\ mpc' = [mpc EXCEPT !.num_threads = mpc.i]
              /\ UNCHANGED wpc
    /\ UNCHANGED <<loc, sem, wcmd, tpc, disk, env, assoc, token, obs, settings, nupd, trendVars>>

\* main: pthread_create of the tuner; when it fails tuner_tid = 0
MainCreateTuner ==
    /\ mpc.pc = "spawn" /\ mpc.i >= mpc.num_threads
    /\ \E ok \in BOOLEAN :
         /\ tpc' = IF ok THEN "run" ELSE tpc
         /\ mpc' = [mpc EXCEPT !.pc = "join", !.i = 0, !.tuner_tid = ok]
    /\ UNCHANGED <<loc, sem, wpc, wcmd, disk, env, assoc, token, obs, settings, nupd, trendVars>>

\* main: pthread_join(tids[i])
MainJoinWorker ==
    /\ mpc.pc = "join" /\ mpc.i < mpc.num_threads
    /\ JoinReady(wpc[mpc.i + 1])
    /\ mpc' = [mpc EXCEPT !.i = @ + 1]
    /\ UNCHANGED <<loc, sem, wpc, wcmd, tpc, disk, env, assoc, token, obs, settings, nupd, trendVars>>

\* main: if (tuner_tid) pthread_join(tuner_tid)
MainJoinTuner ==
    /\ mpc.pc = "join" /\ mpc.i >= mpc.num_threads
    /\ mpc.tuner_tid => JoinReady(tpc)
    /\ mpc' = [mpc EXCEPT !.pc = "save"]
    /\ UNCHANGED <<loc, sem, wpc, wcmd, tpc, disk, env, assoc, token, obs, settings, nupd, trendVars>>

\* main: write_database(&words, &observations, ...)
MainSave ==
    /\ mpc.pc = "save"
    /\ disk' = write_database(token, assoc, obs)
    /\ mpc' = [mpc EXCEPT !.pc = "teardown"]
    /\ UNCHANGED <<loc, sem, wpc, wcmd, tpc, env, assoc, token, obs, settings, nupd, trendVars>>

\* main: destroy_thread_sem, destroy_trend_tracker, pthread_mutex_destroy,
\* cleanup_database (the count of a destroyed semaphore is left as it was)
MainTeardown ==
    /\ mpc.pc = "teardown"
    /\ tracker' = destroy_trend_tracker(tracker)
    /\ token' = <<>> /\ obs' = <<>> /\ assoc' = assoc_free(assoc)
    /\ mpc' = [mpc EXCEPT !.pc = "done"]
    /\ UNCHANGED <<loc, sem, wpc, wcmd, tpc, disk, env, settings, nupd, feed, tun>>

\* a sem_wait_interruptible that never looks at termination_requested
WorkerSemWait_NoFlag(w) ==
    /\ wpc[w] = "sem_wait"
    /\ IF sem > 0
       THEN sem' = sem - 1 /\ wpc' = [wpc EXCEPT ![w] = "loop"]
       ELSE UNCHANGED <<loc, sem, wpc>>
    /\ UNCHANGED <<loc, wcmd, tpc, mpc, disk, env, assoc, token, obs, settings, nupd, trendVars>>

\* worker_thread: sem_wait_interruptible. sem_timedwait takes a permit when
\* there is one; when it times out the worker gives up if the flag is set and
\* waits again otherwise
WorkerSemWait(w) ==
    /\ wpc[w] = "sem_wait"
    /\ IF sem > 0
       THEN sem' = sem - 1 /\ wpc' = [wpc EXCEPT ![w] = "loop"]
       ELSE IF env.term
       THEN wpc' = [wpc EXCEPT ![w] = "exited"] /\ UNCHANGED sem
       ELSE UNCHANGED <<loc, sem, wpc>>
    /\ UNCHANGED <<loc, wcmd, tpc, mpc, disk, env, assoc, token, obs, settings, nupd, trendVars>>

\* worker_thread: the loop test finds the flag set: sem_post, return
WorkerExit(w) ==
    /\ wpc[w] = "loop" /\ env.term
    /\ sem' = sem_post(sem)
    /\ wpc' = [wpc EXCEPT ![w] = "exited"]
    /\ UNCHANGED <<loc, wcmd, tpc, mpc, disk, env, assoc, token, obs, settings, nupd, trendVars>>

\* worker_thread: the loop test finds the flag clear: construct_command, then
\* build_command_line. With argc <= 0 the worker sleeps 50 ms and tries again;
\* when build_command_line cannot allocate it tries again at once
WorkerConstruct(w) ==
    /\ wpc[w] = "loop" /\ ~env.term
    /\ \E m_ok \in BOOLEAN, b_ok \in BOOLEAN :
         \E r \in construct_command(assoc, Len(token), settings, m_ok) :
            /\ wcmd' = [wcmd EXCEPT ![w] = r.out_cmd]
            /\ wpc' = [wpc EXCEPT ![w] = IF r.argc > 0 /\ b_ok THEN "exec" ELSE "loop"]
    /\ UNCHANGED <<loc, sem, tpc, mpc, disk, env, assoc, token, obs, settings, nupd, trendVars>>

\* a worker that pushes a learning value also when execute_command returned NULL
WorkerExecFailed_Push(w) ==
    /\ wpc[w] = "exec"
    /\ loc' = [loc EXCEPT ![w].ret = "NULL", ![w].output = <<>>]
    /\ wpc' = [wpc EXCEPT ![w] = "loop"]
    /\ tracker' = update_trend_tracker(tracker, 0)
    /\ UNCHANGED <<sem, wcmd, tpc, mpc, disk, env, assoc, token, obs, settings, nupd, feed, tun>>

\* worker_thread: execute_command returned NULL
WorkerExecFailed(w) ==
    /\ wpc[w] = "exec"
    /\ loc' = [loc EXCEPT ![w].ret = "NULL", ![w].output = <<>>]
    /\ wpc' = [wpc EXCEPT ![w] = "loop"]
    /\ UNCHANGED <<sem, wcmd, tpc, mpc, disk, env, assoc, token, obs, settings, nupd, trendVars>>

\* worker_thread: execute_command returned output: update_database, update_trend_tracker
WorkerLearn(w) ==
    /\ wpc[w] = "exec" /\ nupd < MaxUpdates
    /\ \E output \in SysOutputs(token, wcmd[w]) :
         LET u == update_database(token, assoc, obs, output, wcmd[w])
         IN  /\ assoc' = u.assoc
             /\ obs' = u.entries
             /\ tracker' = update_trend_tracker(tracker, u.reward)
             /\ loc' = [loc EXCEPT ![w].ret = "buf", ![w].output = output]
    /\ nupd' = nupd + 1
    /\ wpc' = [wpc EXCEPT ![w] = "loop"]
    /\ UNCHANGED <<sem, wcmd, tpc, mpc, disk, env, token, settings, feed, tun>>

\* what no thread of the program writes in these runs
SysRest == UNCHANGED <<aop, simVars, pc, cc, upd, ex, child, mutex, hist>>

NextSys ==
    \/ (MainCreateWorker /\ SysRest)
    \/ (MainCreateTuner /\ SysRest)
    \/ (MainJoinWorker /\ SysRest)
    \/ (MainJoinTuner /\ SysRest)
    \/ (MainSave /\ SysRest)
    \/ (MainTeardown /\ SysRest)
    \/ (\E w \in Workers : WorkerSemWait(w) /\ SysRest)
    \/ (\E w \in Workers : WorkerExit(w) /\ SysRest)
    \/ (\E w \in Workers : WorkerConstruct(w) /\ SysRest)
    \/ (\E w \in Workers : WorkerExecFailed(w) /\ SysRest)
    \/ (\E w \in Workers : WorkerLearn(w) /\ SysRest)
    \/ (TunerStep /\ SysRest /\ UNCHANGED <<sem, wpc, wcmd, mpc, disk, loc, assoc, token, obs, nupd>>)
    \/ (TunerExit /\ SysRest /\ UNCHANGED <<sem, wpc, wcmd, mpc, disk, loc, assoc, token, obs, nupd>>)
    \/ (SignalArrives /\ SysRest /\ UNCHANGED <<sysVars, assoc, token, obs, settings, nupd, trendVars>>)

SpecSys == InitSys /\ [][NextSys]_vars

\* the trivial-command runs: the vocabulary is true, false; length 1, scope 100
InitTrivial ==
    /\ token = TrivialWords
    /\ settings = [length |-> main_clamp(1, CMDMIN, CMDMAX), scope |-> main_clamp(100, SRCHMIN, SRCHMAX)]
    /\ obs = <<>> /\ pc = "construct" /\ cc = NoCmd /\ upd = NoUpd /\ nupd = 0
    /\ TrendIdle
    /\ \E n \in 1 .. NumWorkers :
         /\ sem = n
         /\ mpc = [pc |-> "spawn", i |-> 0, num_threads |-> n, tuner_tid |-> FALSE, max_concurrent |-> n]
    /\ wpc = [w \in Workers |-> "unborn"] /\ wcmd = [w \in Workers |-> <<>>]
    /\ tpc = "unborn" /\ disk = NoDisk /\ LocksIdle
    /\ AssocIdle /\ SimIdle /\ ExecIdle

SpecTrivial == InitTrivial /\ [][NextSys]_vars

\* ---------------- a gate with fewer permits than workers ----------------

\* the threads when init_thread_sem was called with max_concurrent permits,
\* 0 .. NumWorkers, for NumWorkers workers (main itself passes num_threads, and
\* then no worker ever waits)
InitGate ==
    /\ \E N \in 0 .. MaxSeed : token = SubSeq(WordNames, 1, N)
    /\ settings = [length |-> main_clamp(1, CMDMIN, CMDMAX), scope |-> main_clamp(50, SRCHMIN, SRCHMAX)]
    /\ obs = <<>> /\ pc = "construct" /\ cc = NoCmd /\ upd = NoUpd /\ nupd = 0
    /\ TrendIdle
    /\ \E max_concurrent \in 0 .. NumWorkers :
         /\ sem = max_concurrent
         /\ mpc = [pc |-> "spawn", i |-> 0, num_threads |-> NumWorkers, tuner_tid |-> FALSE,
                   max_concurrent |-> max_concurrent]
    /\ wpc = [w \in Workers |-> "unborn"] /\ wcmd = [w \in Workers |-> <<>>]
    /\ tpc = "unborn" /\ disk = NoDisk /\ LocksIdle
    /\ AssocIdle /\ SimIdle /\ ExecIdle

\* every slice of sem_timedwait ends: a waiting worker gets to run its check
\* again and again
SpecGate ==
    InitGate /\ [][NextSys]_vars /\ \A w \in Workers : WF_vars(WorkerSemWait(w) /\ SysRest)

(* ---------------- the threads, one step per lock, unlock and blocking call ---------------- *)

InitLock ==
    /\ token = SubSeq(WordNames, 1, 2)
    /\ settings = [length |-> main_clamp(2, CMDMIN, CMDMAX), scope |-> main_clamp(100, SRCHMIN, SRCHMAX)]
    /\ obs = <<>> /\ pc = "construct" /\ cc = NoCmd /\ upd = NoUpd /\ nupd = 0
    /\ TrendIdle
    /\ \E n \in 1 .. NumWorkers :
         /\ sem = n
         /\ mpc = [pc |-> "spawn", i |-> 0, num_threads |-> n, tuner_tid |-> FALSE, max_concurrent |-> n]
    /\ wpc = [w \in Workers |-> "unborn"] /\ wcmd = [w \in Workers |-> <<>>]
    /\ tpc = "unborn" /\ disk = NoDisk /\ LocksIdle
    /\ AssocIdle /\ SimIdle /\ ExecIdle

\* what the steps of the workers and the tuner leave alone unless they say otherwise
LockRest == UNCHANGED <<aop, simVars, pc, cc, upd, ex, child, feed, disk, mpc, token>>

\* pthread_mutex_lock(m) by worker w: blocks while the mutex is taken
WLock(w, m, from, to) ==
    /\ wpc[w] = from /\ mutex[m] = NoThread
    /\ mutex' = [mutex EXCEPT ![m] = w]
    /\ wpc' = [wpc EXCEPT ![w] = to]
    /\ UNCHANGED <<sem, wcmd, tpc, loc, hist, env, assoc, obs, settings, nupd, tracker, tun>>

\* pthread_mutex_unlock(m) by worker w after a critical section that writes nothing
WUnlock(w, m, from, to) ==
    /\ wpc[w] = from
    /\ mutex' = [mutex EXCEPT ![m] = NoThread]
    /\ wpc' = [wpc EXCEPT ![w] = to]
    /\ UNCHANGED <<sem, wcmd, tpc, loc, hist, env, assoc, obs, settings, nupd, tracker, tun>>

\* worker_thread: sem_wait_interruptible, as WorkerSemWait; the worker then logs its start
LkSemWait(w) ==
    /\ wpc[w] = "sem_wait"
    /\ IF sem > 0
       THEN sem' = sem - 1 /\ wpc' = [wpc EXCEPT ![w] = "start_log"]
       ELSE IF env.term
       THEN wpc' = [wpc EXCEPT ![w] = "exited"] /\ UNCHANGED sem
       ELSE UNCHANGED <<sem, wpc>>
    /\ UNCHANGED <<wcmd, tpc, mutex, loc, hist, env, assoc, obs, settings, nupd, tracker, tun>>

\* worker_thread: while (!termination_requested)
LkLoopTest(w) ==
    /\ wpc[w] = "loop"
    /\ wpc' = [wpc EXCEPT ![w] = IF env.term THEN "stop_log" ELSE "cc_settings"]
    /\ UNCHANGED <<sem, wcmd, tpc, mutex, loc, hist, env, assoc, obs, settings, nupd, tracker, tun>>

\* construct_command: the snapshot of the settings, then the unlock
LkSnapshot(w) ==
    /\ wpc[w] = "cc_snapshot"
    /\ loc' = [loc EXCEPT ![w].want_len = settings.length, ![w].scope_pct = settings.scope]
    /\ mutex' = [mutex EXCEPT !["settings"] = NoThread]
    /\ wpc' = [wpc EXCEPT ![w] = "cc_words"]
    /\ UNCHANGED <<sem, wcmd, tpc, hist, env, assoc, obs, settings, nupd, tracker, tun>>

\* construct_command: the construction under words->mutex, then the unlock
\* and the return (its locals are gone); with argc <= 0 the worker sleeps and
\* goes back to its loop test, where cmd_indices is a new array
LkBuild(w) ==
    /\ wpc[w] = "cc_build"
    /\ \E m_ok \in BOOLEAN :
         \E r \in construct_command(assoc, Len(token),
                                    [length |-> loc[w].want_len, scope |-> loc[w].scope_pct], m_ok) :
            /\ wcmd' = [wcmd EXCEPT ![w] = IF r.argc > 0 THEN r.out_cmd ELSE <<>>]
            /\ wpc' = [wpc EXCEPT ![w] = IF r.argc > 0 THEN "bcl" ELSE "loop"]
    /\ loc' = [loc EXCEPT ![w] = NoLoc]
    /\ mutex' = [mutex EXCEPT !["words"] = NoThread]
    /\ UNCHANGED <<sem, tpc, hist, env, assoc, obs, settings, nupd, tracker, tun>>

\* a build_command_line that returns with words->mutex still locked
LkBuildLine_NoUnlock(w) ==
    /\ wpc[w] = "bcl_held"
    /\ \E b_ok \in BOOLEAN :
         /\ wpc' = [wpc EXCEPT ![w] = IF b_ok THEN "cmd_log" ELSE "loop"]
         /\ wcmd' = [wcmd EXCEPT ![w] = IF b_ok THEN @ ELSE <<>>]
    /\ UNCHANGED <<sem, tpc, mutex, loc, hist, env, assoc, obs, settings, nupd, tracker, tun>>

\* build_command_line: both passes under words->mutex, then the unlock; when
\* malloc fails the worker goes back to its loop test
LkBuildLine(w) ==
    /\ wpc[w] = "bcl_held"
    /\ \E b_ok \in BOOLEAN :
         /\ wpc' = [wpc EXCEPT ![w] = IF b_ok THEN "cmd_log" ELSE "loop"]
         /\ wcmd' = [wcmd EXCEPT ![w] = IF b_ok THEN @ ELSE <<>>]
    /\ mutex' = [mutex EXCEPT !["words"] = NoThread]
    /\ UNCHANGED <<sem, tpc, loc, hist, env, assoc, obs, settings, nupd, tracker, tun>>

\* execute_command returned NULL
LkExecFailed(w) ==
    /\ wpc[w] = "exec"
    /\ loc' = [loc EXCEPT ![w].ret = "NULL", ![w].output = <<>>]
    /\ wpc' = [wpc EXCEPT ![w] = "fail_log"]
    /\ UNCHANGED <<sem, wcmd, tpc, mutex, hist, env, assoc, obs, settings, nupd, tracker, tun>>

\* tokenize_to_indices between two tokens, l being the locals after token t:
\* the end of a pass. After the first pass: NULL when no token is known, else
\* the second pass; after the second: arr[pos] = -1
TokPassEnd(l) ==
    IF l.t < Len(l.toks) THEN l
    ELSE IF l.pass = 1 /\ l.count = 0 THEN [l EXCEPT !.line = NullLine, !.pass = 0]
    ELSE IF l.pass = 1 THEN [l EXCEPT !.pass = 2, !.t = 0]
    ELSE [l EXCEPT !.line = Append(@, IDX_TERMINATOR), !.pass = 0]

\* where the worker is after TokPassEnd: at the next token, at the redundancy
\* check, or, with a NULL line, at the pair loop
TokNext(l) ==
    IF l.pass # 0 THEN "tok" ELSE IF l.line = NullLine THEN "pairs" ELSE "ud_obs"

\* what a command of the runs that follow the locks can print: nothing, a
\* known word, or a word that is not in the vocabulary
LockOutputs == {<<>>, <<"a">>, <<"c">>}

\* execute_command returned output: update_database starts, tokenize_to_indices
\* splits a copy of the output for its first pass
LkExec(w) ==
    /\ wpc[w] = "exec" /\ nupd < MaxUpdates
    /\ \E output \in LockOutputs :
         /\ loc' = [loc EXCEPT ![w] =
                       TokPassEnd([NoLoc EXCEPT !.ret = "buf", !.output = output,
                                                !.toks = SplitFrom(output, 1, <<>>),
                                                !.pass = 1, !.reward = 1])]
         /\ wpc' = [wpc EXCEPT ![w] =
                       TokNext(TokPassEnd([NoLoc EXCEPT !.ret = "buf", !.output = output,
                                                        !.toks = SplitFrom(output, 1, <<>>),
                                                        !.pass = 1, !.reward = 1]))]
    /\ nupd' = nupd + 1
    /\ UNCHANGED <<sem, wcmd, tpc, mutex, hist, env, assoc, obs, settings, tracker, tun>>

\* tokenize_to_indices: pthread_mutex_lock(&words->mutex) for the next token
LkTokLock(w) ==
    /\ wpc[w] = "tok"
    /\ mutex["words"] = NoThread
    /\ mutex' = [mutex EXCEPT !["words"] = w]
    /\ wpc' = [wpc EXCEPT ![w] = "tok_held"]
    /\ UNCHANGED <<sem, wcmd, tpc, loc, hist, env, assoc, obs, settings, nupd, tracker, tun>>

\* a tokenizer that counts and stores every token, known or not
TokFound_KeepUnknown(l, idx) ==
    [l EXCEPT !.t = @ + 1,
              !.count = IF l.pass = 1 THEN @ + 1 ELSE @,
              !.line = IF l.pass = 2 THEN Append(@, idx) ELSE @]

\* the locals after find_token_index_unlocked on token t: count++ (first
\* pass) or arr[pos++] = idx (second pass) when the token is a known word
TokFound(l, idx) ==
    [l EXCEPT !.t = @ + 1,
              !.count = IF l.pass = 1 /\ idx >= 0 THEN @ + 1 ELSE @,
              !.line = IF l.pass = 2 /\ idx >= 0 THEN Append(@, idx) ELSE @]

\* tokenize_to_indices: find_token_index_unlocked, then the unlock
LkTokFind(w) ==
    /\ wpc[w] = "tok_held"
    /\ loc' = [loc EXCEPT ![w] =
                  TokPassEnd(TokFound(loc[w], find_token_index_unlocked(token, loc[w].toks[loc[w].t + 1])))]
    /\ wpc' = [wpc EXCEPT ![w] =
                  TokNext(TokPassEnd(TokFound(loc[w], find_token_index_unlocked(token, loc[w].toks[loc[w].t + 1]))))]
    /\ mutex' = [mutex EXCEPT !["words"] = NoThread]
    /\ UNCHANGED <<sem, wcmd, tpc, hist, env, assoc, obs, settings, nupd, tracker, tun>>

\* an update_database that keeps observations->mutex locked after the append
LkJudge_KeepLock(w) ==
    /\ wpc[w] = "ud_obs_held"
    /\ \E r_ok \in BOOLEAN :
         obs' = IF (JudgeLine(loc[w].line, obs).redundant = 0 \/ STORE_REDUNDANT # 0) /\ r_ok
                THEN Append(obs, loc[w].line) ELSE obs
    /\ loc' = [loc EXCEPT ![w].redundant = JudgeLine(loc[w].line, obs).redundant,
                          ![w].reward = reward_of(loc[w].line, JudgeLine(loc[w].line, obs).redundant),
                          ![w].line = NullLine]
    /\ wpc' = [wpc EXCEPT ![w] = "pairs"]
    /\ UNCHANGED <<sem, wcmd, tpc, mutex, hist, env, assoc, settings, nupd, tracker, tun>>

\* an update_database that checks the line against the log as it was before
\* its newest line came in (the check done before the lock is taken)
LkJudge_StaleCheck(w) ==
    /\ wpc[w] = "ud_obs_held"
    /\ \E r_ok \in BOOLEAN :
         obs' = IF r_ok THEN Append(obs, loc[w].line) ELSE obs
    /\ loc' = [loc EXCEPT ![w].redundant = JudgeLine(loc[w].line, SubSeq(obs, 1, Len(obs) - 1)).redundant,
                          ![w].reward = reward_of(loc[w].line,
                                                  JudgeLine(loc[w].line, SubSeq(obs, 1, Len(obs) - 1)).redundant),
                          ![w].line = NullLine]
    /\ mutex' = [mutex EXCEPT !["observations"] = NoThread]
    /\ wpc' = [wpc EXCEPT ![w] = "pairs"]
    /\ UNCHANGED <<sem, wcmd, tpc, hist, env, assoc, settings, nupd, tracker, tun>>

\* update_database: the redundancy check and the append under
\* observations->mutex (realloc of the log may fail: the line is then freed,
\* not stored), then the unlock and the reward; line is NULL or freed from here on
LkJudge(w) ==
    /\ wpc[w] = "ud_obs_held"
    /\ \E r_ok \in BOOLEAN :
         obs' = IF (JudgeLine(loc[w].line, obs).redundant = 0 \/ STORE_REDUNDANT # 0) /\ r_ok
                THEN Append(obs, loc[w].line) ELSE obs
    /\ loc' = [loc EXCEPT ![w].redundant = JudgeLine(loc[w].line, obs).redundant,
                          ![w].reward = reward_of(loc[w].line, JudgeLine(loc[w].line, obs).redundant),
                          ![w].line = NullLine]
    /\ mutex' = [mutex EXCEPT !["observations"] = NoThread]
    /\ wpc' = [wpc EXCEPT ![w] = "pairs"]
    /\ UNCHANGED <<sem, wcmd, tpc, hist, env, assoc, settings, nupd, tracker, tun>>

\* a pair loop that visits each unordered pair once (a < b)
RECURSIVE PairListFrom_Upper(_, _, _)
PairListFrom_Upper(argc, a, b) ==
    IF a >= argc THEN <<>>
    ELSE IF b >= argc THEN PairListFrom_Upper(argc, a + 1, 0)
    ELSE (IF a >= b THEN <<>> ELSE << <<a, b>> >>) \o PairListFrom_Upper(argc, a, b + 1)

\* the (a, b) of the pair loop of update_database in loop order, a # b
RECURSIVE PairListFrom(_, _, _)
PairListFrom(argc, a, b) ==
    IF a >= argc THEN <<>>
    ELSE IF b >= argc THEN PairListFrom(argc, a + 1, 0)
    ELSE (IF a = b THEN <<>> ELSE << <<a, b>> >>) \o PairListFrom(argc, a, b + 1)

\* the key of the n-th assoc_add call of update_database on cmd_indices
PairKey(cmd_indices, n) ==
    << At(CmdArgsFrom(cmd_indices, 0), PairListFrom(Len(CmdArgsFrom(cmd_indices, 0)), 0, 0)[n][1]),
       PairListFrom(Len(CmdArgsFrom(cmd_indices, 0)), 0, 0)[n][1],
       At(CmdArgsFrom(cmd_indices, 0), PairListFrom(Len(CmdArgsFrom(cmd_indices, 0)), 0, 0)[n][2]),
       PairListFrom(Len(CmdArgsFrom(cmd_indices, 0)), 0, 0)[n][2] >>

\* how many assoc_add calls update_database makes on cmd_indices
NumPairs(cmd_indices) == Len(PairListFrom(Len(CmdArgsFrom(cmd_indices, 0)), 0, 0))

\* an update_database that runs its pair loop without words->mutex
LkPairsLock_None(w) ==
    /\ wpc[w] = "pairs"
    /\ loc' = [loc EXCEPT ![w].n = 1]
    /\ wpc' = [wpc EXCEPT ![w] = "pair_read"]
    /\ UNCHANGED <<sem, wcmd, tpc, mutex, hist, env, assoc, obs, settings, nupd, tracker, tun>>

\* update_database: pthread_mutex_lock(&words->mutex) before the pair loop
LkPairsLock(w) ==
    /\ wpc[w] = "pairs"
    /\ mutex["words"] = NoThread
    /\ mutex' = [mutex EXCEPT !["words"] = w]
    /\ loc' = [loc EXCEPT ![w].n = 1]
    /\ wpc' = [wpc EXCEPT ![w] = "pair_read"]
    /\ UNCHANGED <<sem, wcmd, tpc, hist, env, assoc, obs, settings, nupd, tracker, tun>>

\* assoc_add, e->val += delta: the load of the value (0 when the key has no entry)
LkPairRead(w) ==
    /\ wpc[w] = "pair_read" /\ loc[w].n <= NumPairs(wcmd[w])
    /\ loc' = [loc EXCEPT ![w].tmp = GetKey(assoc, PairKey(wcmd[w], loc[w].n))]
    /\ wpc' = [wpc EXCEPT ![w] = "pair_write"]
    /\ UNCHANGED <<sem, wcmd, tpc, mutex, hist, env, assoc, obs, settings, nupd, tracker, tun>>

\* assoc_add, e->val += delta: the store of the loaded value plus delta
LkPairWrite(w) ==
    /\ wpc[w] = "pair_write"
    /\ assoc' = assoc_add(assoc, PairKey(wcmd[w], loc[w].n)[1], PairKey(wcmd[w], loc[w].n)[2],
                          PairKey(wcmd[w], loc[w].n)[3], PairKey(wcmd[w], loc[w].n)[4],
                          loc[w].tmp + loc[w].reward - GetKey(assoc, PairKey(wcmd[w], loc[w].n)),
                          TRUE, TRUE).a
    /\ loc' = [loc EXCEPT ![w].n = @ + 1]
    /\ wpc' = [wpc EXCEPT ![w] = "pair_read"]
    /\ UNCHANGED <<sem, wcmd, tpc, mutex, hist, env, obs, settings, nupd, tracker, tun>>

\* update_database: the unlock after the pair loop; the update has returned
\* its reward
LkPairsDone(w) ==
    /\ wpc[w] = "pair_read" /\ loc[w].n > NumPairs(wcmd[w])
    /\ mutex' = [mutex EXCEPT !["words"] = NoThread]
    /\ hist' = [hist EXCEPT !.sums = [key \in PairKeySpace |->
                     IF \E n \in 1 .. NumPairs(wcmd[w]) : PairKey(wcmd[w], n) = key
                     THEN hist.sums[key] + loc[w].reward ELSE hist.sums[key]]]
    /\ wpc' = [wpc EXCEPT ![w] = "push"]
    /\ UNCHANGED <<sem, wcmd, tpc, loc, env, assoc, obs, settings, nupd, tracker, tun>>

\* update_trend_tracker: the push under tracker->mutex, then the unlock
LkPush(w) ==
    /\ wpc[w] = "push_held"
    /\ tracker' = update_trend_tracker(tracker, loc[w].reward)
    /\ mutex' = [mutex EXCEPT !["tracker"] = NoThread]
    /\ wpc' = [wpc EXCEPT ![w] = "avg"]
    /\ UNCHANGED <<sem, wcmd, tpc, loc, hist, env, assoc, obs, settings, nupd, tun>>

\* worker_thread: the last logf_safe of an iteration, from its lock to its
\* unlock; output, cmdline and cmd_indices are gone, the worker is back at its
\* loop test
LkIterEnd(w, from) ==
    /\ wpc[w] = from /\ mutex["log"] = NoThread
    /\ UNCHANGED mutex
    /\ loc' = [loc EXCEPT ![w] = NoLoc]
    /\ wcmd' = [wcmd EXCEPT ![w] = <<>>]
    /\ wpc' = [wpc EXCEPT ![w] = "loop"]
    /\ UNCHANGED <<sem, tpc, hist, env, assoc, obs, settings, nupd, tracker, tun>>

\* worker_thread: sem_post, return
LkPost(w) ==
    /\ wpc[w] = "post"
    /\ sem' = sem_post(sem)
    /\ wpc' = [wpc EXCEPT ![w] = "exited"]
    /\ UNCHANGED <<wcmd, tpc, mutex, loc, hist, env, assoc, obs, settings, nupd, tracker, tun>>

\* the steps of worker w in the order of worker_thread
WorkerLockStep(w) ==
    \/ LkSemWait(w)
    \/ WLock(w, "log", "start_log", "start_logged")
    \/ WUnlock(w, "log", "start_logged", "loop")
    \/ LkLoopTest(w)
    \/ WLock(w, "settings", "cc_settings", "cc_snapshot")
    \/ LkSnapshot(w)
    \/ WLock(w, "words", "cc_words", "cc_build")
    \/ LkBuild(w)
    \/ WLock(w, "words", "bcl", "bcl_held")
    \/ LkBuildLine(w)
    \/ WLock(w, "log", "cmd_log", "cmd_logged")
    \/ WUnlock(w, "log", "cmd_logged", "exec")
    \/ LkExecFailed(w)
    \/ LkIterEnd(w, "fail_log")
    \/ LkExec(w)
    \/ LkTokLock(w)
    \/ LkTokFind(w)
    \/ WLock(w, "observations", "ud_obs", "ud_obs_held")
    \/ LkJudge(w)
    \/ LkPairsLock(w)
    \/ LkPairRead(w)
    \/ LkPairWrite(w)
    \/ LkPairsDone(w)
    \/ WLock(w, "tracker", "push", "push_held")
    \/ LkPush(w)
    \/ WLock(w, "tracker", "avg", "avg_held")
    \/ WUnlock(w, "tracker", "avg_held", "res_log")
    \/ LkIterEnd(w, "res_log")
    \/ WLock(w, "log", "stop_log", "stop_logged")
    \/ WUnlock(w, "log", "stop_logged", "post")
    \/ LkPost(w)

\* pthread_mutex_lock(m) by the tuner
TLock(m, from, to) ==
    /\ tpc = from /\ mutex[m] = NoThread
    /\ mutex' = [mutex EXCEPT ![m] = TunerId]
    /\ tpc' = to
    /\ UNCHANGED <<sem, wpc, wcmd, loc, hist, env, assoc, obs, settings, nupd, tracker, tun>>

\* tuner_thread: the unlock of get_moving_average (the warm-up read)
TnWarmUp ==
    /\ tpc = "warm_held"
    /\ mutex' = [mutex EXCEPT !["tracker"] = NoThread]
    /\ tpc' = "test"
    /\ UNCHANGED <<sem, wpc, wcmd, loc, hist, env, assoc, obs, settings, nupd, tracker, tun>>

\* tuner_thread: while (!termination_requested)
TnLoopTest ==
    /\ tpc = "test"
    /\ env.term \/ hist.tunes < MaxTunes
    /\ tpc' = IF env.term THEN "exited" ELSE "analyze"
    /\ UNCHANGED <<sem, wpc, wcmd, mutex, loc, hist, env, assoc, obs, settings, nupd, tracker, tun>>

\* analyze_learning_trend under tracker->mutex, then the unlock
TnAnalyze ==
    /\ tpc = "analyze_held"
    /\ tun' = [adj |-> analyze_learning_trend(tracker), cur |-> tun.cur]
    /\ mutex' = [mutex EXCEPT !["tracker"] = NoThread]
    /\ tpc' = IF analyze_learning_trend(tracker) # 0 THEN "set" ELSE "sleep"
    /\ UNCHANGED <<sem, wpc, wcmd, loc, hist, env, assoc, obs, settings, nupd, tracker>>

\* tuner_set_length_locked under settings->mutex, then the unlock
TnSet ==
    /\ tpc = "set_held"
    /\ settings' = tuner_set_length_locked(settings, settings.length + (IF tun.adj > 0 THEN 1 ELSE -1))
    /\ mutex' = [mutex EXCEPT !["settings"] = NoThread]
    /\ hist' = [hist EXCEPT !.tunes = @ + 1]
    /\ tpc' = "sleep"
    /\ UNCHANGED <<sem, wpc, wcmd, loc, env, assoc, obs, nupd, tracker, tun>>

\* usleep(interval_ms * 1000) returns; adj belongs to the round that ended
TnSleep ==
    /\ tpc = "sleep"
    /\ tpc' = "test"
    /\ tun' = NoTune
    /\ UNCHANGED <<sem, wpc, wcmd, mutex, loc, hist, env, assoc, obs, settings, nupd, tracker>>

\* the steps of the tuner in the order of tuner_thread
TunerLockStep ==
    \/ TLock("tracker", "run", "warm_held")
    \/ TnWarmUp
    \/ TnLoopTest
    \/ TLock("tracker", "analyze", "analyze_held")
    \/ TnAnalyze
    \/ TLock("settings", "set", "set_held")
    \/ TnSet
    \/ TnSleep

NextLock ==
    \/ (MainCreateWorker /\ SysRest)
    \/ (MainCreateTuner /\ SysRest)
    \/ (MainJoinWorker /\ SysRest)
    \/ (MainJoinTuner /\ SysRest)
    \/ (MainSave /\ SysRest)
    \/ (MainTeardown /\ SysRest)
    \/ (\E w \in Workers : WorkerLockStep(w) /\ LockRest)
    \/ (TunerLockStep /\ LockRest)
    \/ (SignalArrives /\ SysRest /\ UNCHANGED <<sysVars, assoc, token, obs, settings, nupd, trendVars>>)

SpecLock == InitLock /\ [][NextLock]_vars

(* ---------------- one execute_command call ---------------- *)

InitExec == ExecIdle /\ AssocIdle /\ SimIdle /\ LearnIdle /\ TrendIdle /\ SysIdle

ExecStep ==
    \/ ExecPipeFails \/ ExecForkFails \/ ExecStart \/ ExecIter
    \/ ExecOomWaitReturns \/ ExecOomWaitInterrupted
    \/ ChildSetpgid \/ ChildWrites \/ ChildExits \/ ChildKilled \/ ChildDiscarded
    \/ RuntimeElapses \/ SignalArrives

\* what execute_command and its child leave alone
ExecRest == UNCHANGED <<assocVars, simVars, learnVars, trendVars, sysVars>>

NextExec ==
    \/ (ExecPipeFails /\ ExecRest)
    \/ (ExecForkFails /\ ExecRest)
    \/ (ExecStart /\ ExecRest)
    \/ (ExecIter /\ ExecRest)
    \/ (ExecOomWaitReturns /\ ExecRest)
    \/ (ExecOomWaitInterrupted /\ ExecRest)
    \/ (ChildSetpgid /\ ExecRest)
    \/ (ChildWrites /\ ExecRest)
    \/ (ChildExits /\ ExecRest)
    \/ (ChildKilled /\ ExecRest)
    \/ (ChildDiscarded /\ ExecRest)
    \/ (RuntimeElapses /\ ExecRest)
    \/ (SignalArrives /\ ExecRest)

SpecExec == InitExec /\ [][NextExec]_vars

\* the default specification: the worker loop
Spec == SpecLearn

(* ---------------- load_tokens and seed_vocabulary_from_path, one token at a time ---------------- *)

\* In this run mpc holds main's position ("load" inside load_tokens, "seed"
\* inside seed_vocabulary_from_path, "run" after them, "crashed" when the
\* process died), i: the lines and directory entries read so far, cap: the
\* bytes malloc'ed for each slot of Words.token (0 for a NULL slot),
\* total_added of seed_vocabulary_from_path, and the last append: its token
\* buf, whether reallocate_words was called (tried), whether its realloc
\* (grown) and its malloc (slot) succeeded, and the vocabulary and
\* total_added before it.
NoGrow ==
    [pc |-> "load", i |-> 0, cap |-> <<>>, total_added |-> 0, buf |-> <<>>, tried |-> FALSE,
     grown |-> FALSE, slot |-> FALSE, before |-> <<>>, added_before |-> 0]

\* reallocate_words: token[] and the sizes of its slots afterwards; the new
\* slot is not written yet (its content is whatever malloc left there)
reallocate_words(tokens, caps, wordLength, realloc_ok, malloc_ok) ==
    IF wordLength < 0 \/ ~realloc_ok THEN [token |-> tokens, cap |-> caps]
    ELSE [token |-> Append(tokens, <<>>),
          cap |-> Append(caps, IF malloc_ok THEN wordLength + 1 ELSE 0)]

\* the outcomes of the caller's
\*   reallocate_words(w, strlen(buf));
\*   if (w->token[w->numWords - 1]) { copy buf; [count it] } else if (w->numWords > 0) w->numWords--;
\* With numWords = 0 after the call token[-1] is read off a NULL array, and a
\* copy longer than the slot writes past its end: undefined behaviour, the
\* process dies or goes on (with the bytes of buf at the slot's address).
append_token(tokens, caps, buf, realloc_ok, malloc_ok) ==
    IF Len(reallocate_words(tokens, caps, Len(buf), realloc_ok, malloc_ok).token) = 0
    THEN {[token |-> tokens, cap |-> caps, crashed |-> crashed, copied |-> copied] :
              crashed \in BOOLEAN, copied \in BOOLEAN}
    ELSE IF reallocate_words(tokens, caps, Len(buf), realloc_ok, malloc_ok).cap[
                Len(reallocate_words(tokens, caps, Len(buf), realloc_ok, malloc_ok).cap)] # 0
    THEN {[token |-> [reallocate_words(tokens, caps, Len(buf), realloc_ok, malloc_ok).token
                          EXCEPT ![Len(reallocate_words(tokens, caps, Len(buf), realloc_ok,
                                                        malloc_ok).token)] = buf],
           cap |-> reallocate_words(tokens, caps, Len(buf), realloc_ok, malloc_ok).cap,
           crashed |-> crashed, copied |-> TRUE] :
              crashed \in IF Len(buf) + 1 <= reallocate_words(tokens, caps, Len(buf), realloc_ok,
                                                              malloc_ok).cap[
                                 Len(reallocate_words(tokens, caps, Len(buf), realloc_ok,
                                                      malloc_ok).cap)]
                          THEN {FALSE} ELSE BOOLEAN}
    ELSE \* the NULL slot just appended is dropped again: numWords--
         {[token |-> SubSeq(reallocate_words(tokens, caps, Len(buf), realloc_ok, malloc_ok).token,
                            1, Len(tokens)),
           cap |-> caps, crashed |-> FALSE, copied |-> FALSE]}

\* the lines fgets can hand to load_tokens, and the entries readdir can hand
\* to seed_vocabulary_from_path (exec: a regular file, no symbolic link, with
\* an execute bit)
GrowLines == {<<"a", "\n">>, <<"b", "\n">>, <<"a", "b", "\n">>, <<"\n">>}
GrowEntries == [d_name : {<<"a">>, <<"b">>, <<"a", "b">>, <<".", "a">>}, exec : BOOLEAN]

InitGrow ==
    /\ token = <<>> /\ settings = [length |-> CMDMIN, scope |-> SRCHMIN] /\ obs = <<>>
    /\ pc = "construct" /\ cc = NoCmd /\ upd = NoUpd /\ nupd = 0
    /\ AssocIdle /\ SimIdle /\ ExecIdle /\ TrendIdle
    /\ sem = 0 /\ wpc = [w \in Workers |-> "unborn"] /\ wcmd = [w \in Workers |-> <<>>]
    /\ tpc = "unborn" /\ mpc = NoGrow
    /\ disk = NoDisk /\ LocksIdle

\* what loading and seeding leave alone
GrowRest ==
    UNCHANGED <<assocVars, simVars, settings, obs, pc, cc, upd, nupd, execVars, trendVars,
                sem, wpc, wcmd, tpc, disk, mutex, loc, hist>>

\* main's position after an append with outcome o
GrowAfter(o, from) == IF o.crashed THEN "crashed" ELSE from

\* load_tokens: one turn of its loop over the lines of the file (the lock and
\* the unlock of words->mutex around the append are part of the turn, no
\* other thread exists yet)
GrowLoadLine ==
    /\ mpc.pc = "load" /\ mpc.i < MaxGrow
    /\ \E raw \in GrowLines, realloc_ok \in BOOLEAN, malloc_ok \in BOOLEAN :
         IF Chomp(raw) = <<>> \/ find_token_index_unlocked(token, Chomp(raw)) >= 0
         THEN /\ token' = token
              /\ mpc' = [mpc EXCEPT !.i = @ + 1, !.buf = Chomp(raw), !.tried = FALSE,
                                    !.before = token, !.added_before = mpc.total_added]
         ELSE \E o \in append_token(token, mpc.cap, Chomp(raw), realloc_ok, malloc_ok) :
                /\ token' = o.token
                /\ mpc' = [mpc EXCEPT !.pc = GrowAfter(o, "load"), !.i = @ + 1, !.cap = o.cap,
                                      !.buf = Chomp(raw), !.tried = TRUE, !.grown = realloc_ok,
                                      !.slot = malloc_ok, !.before = token,
                                      !.added_before = mpc.total_added]
    /\ GrowRest

\* load_tokens returns at the end of the file; main seeds when the vocabulary
\* is still empty
GrowLoadDone ==
    /\ mpc.pc = "load"
    /\ mpc' = [mpc EXCEPT !.pc = IF Len(token) = 0 THEN "seed" ELSE "run"]
    /\ UNCHANGED token
    /\ GrowRest

\* seed_vocabulary_from_path: one turn of its loop over the entries of a
\* directory (MAX_SEED_PER_DIR = 5000 additions are out of reach here)
GrowSeedEntry ==
    /\ mpc.pc = "seed" /\ mpc.i < MaxGrow
    /\ \E ent \in GrowEntries, realloc_ok \in BOOLEAN, malloc_ok \in BOOLEAN :
         IF ent.d_name[1] = "." \/ ~ent.exec \/ find_token_index_unlocked(token, ent.d_name) >= 0
         THEN /\ token' = token
              /\ mpc' = [mpc EXCEPT !.i = @ + 1, !.buf = ent.d_name, !.tried = FALSE,
                                    !.before = token, !.added_before = mpc.total_added]
         ELSE \E o \in append_token(token, mpc.cap, ent.d_name, realloc_ok, malloc_ok) :
                /\ token' = o.token
                /\ mpc' = [mpc EXCEPT !.pc = GrowAfter(o, "seed"), !.i = @ + 1, !.cap = o.cap,
                                      !.total_added = IF o.copied THEN @ + 1 ELSE @,
                                      !.buf = ent.d_name, !.tried = TRUE, !.grown = realloc_ok,
                                      !.slot = malloc_ok, !.before = token,
                                      !.added_before = mpc.total_added]
    /\ GrowRest

\* readdir returns NULL in the last directory (or the scan timed out):
\* seed_vocabulary_from_path returns total_added
GrowSeedDone ==
    /\ mpc.pc = "seed"
    /\ mpc' = [mpc EXCEPT !.pc = "run"]
    /\ UNCHANGED token
    /\ GrowRest

NextGrow ==
    \/ GrowLoadLine
    \/ GrowLoadDone
    \/ GrowSeedEntry
    \/ GrowSeedDone

SpecGrow == InitGrow /\ [][NextGrow]_vars

(* ======================= the claims ======================= *)

\* C1: a synthesized command has 0 <= argc <= min(settings.length, N), ends in
\* -1 at out_cmd[argc], holds only indices in [0, N) and none twice; with N = 0
\* it is argc = 0 with the terminator at position 0
C1_CommandWellFormed ==
    (cc # NoCmd) =>
        /\ 0 <= cc.argc /\ cc.argc <= Min(cc.length, cc.N)
        /\ Len(cc.out_cmd) = cc.argc + 1
        /\ At(cc.out_cmd, cc.argc) = IDX_TERMINATOR
        /\ \A i \in 0 .. (cc.argc - 1) : At(cc.out_cmd, i) >= 0 /\ At(cc.out_cmd, i) < cc.N
        /\ \A i \in 0 .. (cc.argc - 1), j \in 0 .. (cc.argc - 1) :
              (i # j) => At(cc.out_cmd, i) # At(cc.out_cmd, j)
        /\ (cc.N = 0) => (cc.argc = 0 /\ At(cc.out_cmd, 0) = IDX_TERMINATOR)

\* a command of three arguments was synthesized by greedy picks over a map that
\* already holds associations
C1_Witness == cc.argc = 3 /\ cc.N = 3 /\ assoc.nentries > 0 /\ pc = "execute"

\* the keys (w_a, a, w_b, b) of the ordered pairs of positions of a command
PairKeys(cmd) ==
    LET vals == CmdArgsFrom(cmd, 0)
    IN  {<<At(vals, a), a, At(vals, b), b>> : a \in 0 .. (Len(vals) - 1), b \in 0 .. (Len(vals) - 1)}
          \ {<<At(vals, a), a, At(vals, a), a>> : a \in 0 .. (Len(vals) - 1)}

\* every key over the word indices and positions the model's commands use
ModelKeys == {<<i, pi, k, pk>> : i \in WordIdx, pi \in WordIdx, k \in WordIdx, pk \in WordIdx}

\* C2: an update_database call changes the value of the key (w_a, a, w_b, b) of
\* every ordered pair of positions a # b of its command by exactly the reward
\* it computed and leaves every other key as it was; the command [0,1] with an
\* output judged novel brings A(0,0,1,1) and A(1,1,0,0) from 0 to REWARD, and
\* running it again with the same output lowers both by PENALTY
C2_PairwiseUpdate ==
    [][ (nupd' = nupd + 1) =>
          /\ \A key \in ModelKeys :
                GetKey(assoc', key) =
                    GetKey(assoc, key) + (IF key \in PairKeys(upd'.cmd) THEN upd'.reward ELSE 0)
          /\ assoc'.nentries = Cardinality({key \in ModelKeys : GetKey(assoc', key) # 0})
          /\ (upd'.cmd = <<0, 1, IDX_TERMINATOR>> /\ upd'.line # NullLine /\ upd'.redundant = 0
                /\ GetKey(assoc, <<0, 0, 1, 1>>) = 0 /\ GetKey(assoc, <<1, 1, 0, 0>>) = 0)
              => (GetKey(assoc', <<0, 0, 1, 1>>) = REWARD /\ GetKey(assoc', <<1, 1, 0, 0>>) = REWARD)
          /\ (upd'.cmd = <<0, 1, IDX_TERMINATOR>> /\ upd'.rerun)
              => /\ GetKey(assoc', <<0, 0, 1, 1>>) = GetKey(assoc, <<0, 0, 1, 1>>) - PENALTY
                 /\ GetKey(assoc', <<1, 1, 0, 0>>) = GetKey(assoc, <<1, 1, 0, 0>>) - PENALTY
      ]_vars

\* the command [0,1] was run twice with the same output: novel, then redundant
C2_Witness ==
    /\ upd.cmd = <<0, 1, IDX_TERMINATOR>> /\ upd.rerun /\ nupd = 2
    /\ GetKey(assoc, <<0, 0, 1, 1>>) = REWARD - PENALTY
    /\ GetKey(assoc, <<1, 1, 0, 0>>) = REWARD - PENALTY

\* C3 as claimed: the reward is REWARD whenever the output is not judged
\* redundant (also when nothing of it was tokenized) and -PENALTY when it is
C3_AsClaimed ==
    (upd # NoUpd) => upd.reward = (IF upd.redundant # 0 THEN 0 - PENALTY ELSE REWARD)

\* the stored lines a call of update_database compared its line with
ObsBefore == SubSeq(obs, 1, upd.nobs)

\* the similarity of a candidate with a whole stored line
WholeLineSim(line, row) ==
    line_similarity_proximity(line, Len(line), row, Len(row))

\* C6 as claimed: when some stored line, taken whole, is at least
\* REDUNDANCY_THRESHOLD similar to the candidate, update_database judges the
\* candidate redundant and the best score is at least the threshold
C6_AsClaimed ==
    (upd # NoUpd /\ upd.line # NullLine
       /\ \E n \in 1 .. upd.nobs :
             RatGe(WholeLineSim(upd.line, ObsBefore[n]), Percent(REDUNDANCY_THRESHOLD)))
    => (upd.redundant = 1 /\ RatGe(upd.best_score, Percent(REDUNDANCY_THRESHOLD)))

\* the formula of the documentation: d_i is the least |i-j| over all j with
\* b[j] = a[i], the per-index score is 1/(1+d_i), 0 when a[i] is not in b
DocDistances(a, b, i) == {abs_diff_int(i, j) : j \in {x \in 1 .. Len(b) : b[x] = a[i]}}

DocScore(a, b, i) ==
    LET D == DocDistances(a, b, i)
    IN  IF D = {} THEN 0 ELSE SimScale \div (1 + (CHOOSE d \in D : \A e \in D : d <= e))

RECURSIVE DocTotal(_, _, _)
DocTotal(a, b, i) == IF i > Len(a) THEN 0 ELSE DocScore(a, b, i) + DocTotal(a, b, i + 1)

DocSim(a, b) ==
    IF Len(a) = 0 \/ Len(b) = 0 THEN Zero
    ELSE [num |-> DocTotal(a, b, 1) * 100, den |-> Len(a) * SimScale]

\* C7 as claimed: the returned similarity is 100/n times the sum of 1/(1+d_i)
\* over the indices whose value occurs in b, whatever the distance, and 0 for
\* an empty input
C7_AsClaimed == (simOut # NoSim) => RatEq(simOut, DocSim(simA, simB))

\* C8 as claimed: the similarity of any sequence with itself is 100
C8_AsClaimed == (simOut # NoSim /\ simA = simB) => RatEq(simOut, Percent(100))

\* C8: the similarity of a non-empty sequence with itself is 100, that of the
\* empty sequence with itself is 0, and every similarity lies in 0 .. 100
C8_SelfSimilarity ==
    (simOut # NoSim) =>
        /\ (simA = simB /\ simA # <<>>) => RatEq(simOut, Percent(100))
        /\ (simA = simB /\ simA = <<>>) => RatEq(simOut, Percent(0))
        /\ RatGe(simOut, Percent(0)) /\ RatGe(Percent(100), simOut)

\* a sequence of full length with a repeated value has been compared with itself
C8_Witness ==
    /\ simOut # NoSim /\ simA = simB /\ Len(simA) = MaxLineLen
    /\ \E i \in 1 .. Len(simA), j \in 1 .. Len(simA) : i # j /\ simA[i] = simA[j]

IterKeys(a) == {<<e.i, e.pi, e.k, e.pk>> : e \in {IterAll(a)[n] : n \in 1 .. Len(IterAll(a))}}

AddKey(a, key, d) == assoc_add(a, key[1], key[2], key[3], key[4], d, TRUE, TRUE).a

\* C4: an add of a non-zero delta on an absent key makes get return the delta;
\* an add of the opposite of a key's value makes get return 0 and takes the key
\* out of the iteration; and two deltas added to one key in either order leave
\* the same value (allocations succeeding)
C4_AddGetRoundTrip ==
    /\ (aop.rc = 0 /\ aop.delta # 0 /\ aop.before = 0)
          => GetKey(assoc, aop.key) = aop.delta
    /\ (aop.rc = 0 /\ aop.delta # 0 /\ aop.before = 0 - aop.delta)
          => (GetKey(assoc, aop.key) = 0 /\ aop.key \notin IterKeys(assoc))
    /\ \A key \in AssocKeys, d1 \in Deltas, d2 \in Deltas :
          GetKey(AddKey(AddKey(assoc, key, d1), key, d2), key)
            = GetKey(AddKey(AddKey(assoc, key, d2), key, d1), key)

\* a key that held a value has just been brought back to 0 by the opposite add,
\* in a table that still holds another entry
C4_Witness ==
    /\ aop.rc = 0 /\ aop.delta # 0 /\ aop.before = 0 - aop.delta
    /\ assoc.nentries >= 1

AllEntries(a) == EntriesFrom(a, 0)

EntryKey(e) == <<e.i, e.pi, e.k, e.pk>>

\* C5: no stored entry has value 0, no key has two entries, nentries counts the
\* stored entries, and get of a key without an entry is 0
C5_MapInvariant ==
    LET es == AllEntries(assoc)
    IN  /\ \A n \in 1 .. Len(es) : es[n].val # 0
        /\ \A n \in 1 .. Len(es), m \in 1 .. Len(es) : (n # m) => EntryKey(es[n]) # EntryKey(es[m])
        /\ assoc.nentries = Len(es)
        /\ \A key \in AssocKeys :
              (\A n \in 1 .. Len(es) : EntryKey(es[n]) # key) => GetKey(assoc, key) = 0

\* the table was rehashed twice, holds two entries, and the last call was an
\* add of 0
C5_Witness == assoc.nbuckets = 4 /\ assoc.nentries >= 2 /\ aop.delta = 0 /\ aop # NoOp

\* C9 as claimed: when execute_command has returned after a successful fork,
\* its child is no longer waiting to be reaped
C9_AsClaimed == (ex.pc = "done" /\ ex.forked) => child \in {"reaped", "lost"}

\* C10: when execute_command has returned, neither end of its pipe is open in
\* the parent
C10_PipeClosed == (ex.pc = "done") => (~ex.rd /\ ~ex.wr)

\* the executor gave up after the last SIGKILL and returned
C10_Witness == ex.pc = "done" /\ ex.path = "giveup" /\ ex.kill_stage = KILL_ATTEMPTS + 1

\* C19: the trend verdict as the claim states it: 0 for n < 2, otherwise the
\* mean of the k = ceil(n/2) newest samples against the mean of the other
\* n - k, with the 0.5 threshold. The code takes k = n / 2 rounded down.
DocTrend(t) ==
    LET n == t.count
        k == (n + 1) \div 2
        s == InPushOrder(t)
        recent == [num |-> SumSlots([lrnvals |-> s], n - k, n), den |-> k]
        prior == [num |-> SumSlots([lrnvals |-> s], 0, n - k), den |-> n - k]
    IN  IF n < 2 THEN 0 ELSE TrendSign(recent, prior)

C19_AsClaimed == analyze_learning_trend(tracker) = DocTrend(tracker)

StrictlyRising(t) ==
    /\ t.count >= 2
    /\ \A j \in 1 .. (t.count - 1) : InPushOrder(t)[j] < InPushOrder(t)[j + 1]

StrictlyFalling(t) ==
    /\ t.count >= 2
    /\ \A j \in 1 .. (t.count - 1) : InPushOrder(t)[j] > InPushOrder(t)[j + 1]

\* C17: settings.length is always within [CMDMIN, CMDMAX], whatever --length
\* was given; a tuner step sets it to the old length plus the verdict, clamped
\* to [CMDMIN, CMDMAX]; a push leaves it alone; settings.scope never changes
C17_LengthClamped ==
    /\ [](CMDMIN <= settings.length /\ settings.length <= CMDMAX)
    /\ [][/\ settings'.scope = settings.scope
          /\ IF tracker' = tracker
             THEN settings'.length =
                      CLAMP(settings.length + analyze_learning_trend(tracker), CMDMIN, CMDMAX)
             ELSE settings'.length = settings.length]_vars

\* the tuner read +1 at CMDMAX and the length stayed at CMDMAX
C17_Witness == tun = [adj |-> 1, cur |-> CMDMAX] /\ settings.length = CMDMAX

\* C18: while the tracker holds a strictly increasing sequence, every tuner
\* step adds 1 to settings.length up to CMDMAX, where it stays; while it holds
\* a strictly decreasing one, every step takes 1 off down to CMDMIN, where it stays
C18_TrendDrivesLength ==
    [][(tracker' = tracker) =>
         /\ StrictlyRising(tracker) => settings'.length = Min(settings.length + 1, CMDMAX)
         /\ StrictlyFalling(tracker) =>
                settings'.length = (IF settings.length - 1 < CMDMIN THEN CMDMIN ELSE settings.length - 1)]_vars

\* after a rising run the tracker was filled with falling samples and the
\* tuner, having brought the length down to CMDMIN, left it there
C18_Witness ==
    /\ feed.mode = "falling" /\ StrictlyFalling(tracker) /\ tracker.count = TREND_WINDOW_SIZE
    /\ tun = [adj |-> -1, cur |-> CMDMIN] /\ settings.length = CMDMIN

\* C20: after pushes that are all zero the moving average is 0 and the verdict
\* is 0; after pushes that form a strictly increasing sequence the verdict is
\* +1 once two samples are filled, also after the buffer has wrapped
C20_ZerosAndRising ==
    /\ (feed.npush >= 1 /\ feed.zeros) =>
           /\ RatEq(get_moving_average(tracker), Zero)
           /\ analyze_learning_trend(tracker) = 0
    /\ (feed.mode = "rising" /\ Min(feed.npush, TREND_WINDOW_SIZE) >= 2) =>
           analyze_learning_trend(tracker) = 1

\* a rising run longer than the window
C20_Witness ==
    /\ feed.mode = "rising" /\ feed.npush > TREND_WINDOW_SIZE
    /\ analyze_learning_trend(tracker) = 1

\* the escalation in full: one SIGTERM, then KILL_ATTEMPTS SIGKILLs
EscalationSeq == <<"SIGTERM">> \o [i \in 1 .. KILL_ATTEMPTS |-> "SIGKILL"]

IsPrefix(a, b) == Len(a) <= Len(b) /\ \A i \in 1 .. Len(a) : a[i] = b[i]

\* C11: outside the allocation-failure paths, the signals execute_command has
\* sent are always a prefix of SIGTERM, SIGKILL x KILL_ATTEMPTS; an iteration
\* sends at most one, and only when RUNTIME has elapsed or the flag is set and
\* the child is still running; and an iteration that finds the whole sequence
\* sent, the deadline passed or the flag set and the child still running closes
\* the pipe and returns NULL
C11_EscalationOrder ==
    [][(ex'.path \notin {"malloc", "realloc"}) =>
         /\ IsPrefix(ex'.sigs, EscalationSeq)
         /\ Len(ex'.sigs) <= Len(ex.sigs) + 1
         /\ (ex'.sigs # ex.sigs) => ((env.over_time \/ env.term) /\ child = "running")
         /\ (ex' # ex /\ ex.pc = "loop" /\ ex.sigs = EscalationSeq
                /\ (env.over_time \/ env.term) /\ child = "running")
               => (ex'.pc = "done" /\ ex'.ret = "NULL" /\ ~ex'.rd /\ ex'.sigs = ex.sigs)]_vars

\* the flag alone, with the deadline not reached, took the executor through the
\* whole escalation to the failure return
C11_Witness ==
    /\ ex.pc = "done" /\ ex.ret = "NULL" /\ ex.sigs = EscalationSeq
    /\ env.term /\ ~env.over_time

\* C12: counting from the first poll-loop iteration that finds RUNTIME elapsed
\* or the flag set, execute_command runs at most KILL_ATTEMPTS + 2 iterations:
\* after the last of them it has left the loop, and where it left the loop to
\* wait for the child (a failed realloc) a SIGKILL has reached the child
C12_BoundedResponse ==
    /\ ex.late <= KILL_ATTEMPTS + 2
    /\ (ex.late = KILL_ATTEMPTS + 2) => ex.pc \in {"done", "oom_wait"}
    /\ (ex.pc = "oom_wait" /\ ex.path = "realloc" /\ child = "running") => env.killed

\* the child never exited and the call returned at the last allowed iteration
C12_Witness == ex.late = KILL_ATTEMPTS + 2 /\ ex.pc = "done" /\ child = "running"

\* C13: a buffer is returned only when the executor never had to signal the
\* child; NULL is returned after a timeout or kill and after an error
C13_AsClaimed == (ex.pc = "done" /\ ex.ret = "buf") => ex.sigs = <<>>

\* C15: once the termination flag is set, a worker inside execute_command is
\* not left waiting for a child that nothing ends: where the executor blocks in
\* waitpid, the child has exited or a SIGKILL has reached it
C15_AsClaimed == (env.term /\ ex.pc = "oom_wait" /\ child = "running") => env.killed

\* the workers that hold a permit of thread_sem
Holders == {w \in Workers : wpc[w] \in {"loop", "exec"}}

\* C14: the workers inside their loop are exactly the ones holding a permit:
\* there are never more of them than the count the semaphore was initialised
\* with, the count plus the holders is always that initial value, and so the
\* count is back at it when every worker has exited
C14_WorkerAdmission ==
    /\ Cardinality(Holders) <= mpc.max_concurrent
    /\ sem + Cardinality(Holders) = mpc.max_concurrent
    /\ (\A w \in Workers : wpc[w] \in {"unborn", "exited"}) => sem = mpc.max_concurrent

\* all NumWorkers workers ran, learned something and exited
C14_Witness ==
    /\ mpc.max_concurrent = NumWorkers /\ \A w \in Workers : wpc[w] = "exited"
    /\ nupd > 0 /\ sem = NumWorkers

\* main is at or past write_database
Saving == mpc.pc \in {"save", "teardown", "done"}

\* C16: while main saves and tears down, every worker that was started and
\* the tuner have terminated, and nothing they write changes any more
C16_ShutdownOrder ==
    /\ [](Saving => /\ \A w \in Workers : wpc[w] \in {"unborn", "exited"}
                    /\ tpc \in {"unborn", "exited"})
    /\ [][Saving => /\ wpc' = wpc /\ tpc' = tpc /\ wcmd' = wcmd /\ tun' = tun
                    /\ settings' = settings /\ nupd' = nupd /\ feed' = feed]_vars

\* the run ended with the database written after both workers and the tuner had run
C16_Witness ==
    /\ mpc.pc = "done" /\ disk.written /\ mpc.tuner_tid /\ tpc = "exited"
    /\ \A w \in Workers : wpc[w] = "exited"
    /\ Len(disk.obs) > 0

\* C26: when an allocation fails inside an assoc_add call of update_database the
\* update is dropped as a whole: the association map is as it was before the
\* call and the reward is not pushed into the trend tracker
C26_AsClaimed ==
    [][(upd'.nomem /\ nupd' # nupd) => (assoc' = assoc /\ tracker' = tracker)]_vars

C25_ExecFailureSkips ==
    [][\A w \in Workers :
          (wpc[w] = "exec" /\ wpc'[w] # "exec" /\ loc'[w].ret = "NULL") =>
              /\ UNCHANGED <<token, assoc, obs, tracker, nupd, sem>>
              /\ wpc'[w] = "loop"]_vars

C25_Witness ==
    \E w \in Workers :
        /\ wpc[w] = "loop" /\ loc[w].ret = "NULL" /\ ~env.term
        /\ nupd = 1 /\ tracker.count = 1 /\ assoc.nentries = 0

SameAsSaved ==
    /\ token = hist.saved.token
    /\ NonZero(assoc) = hist.saved.values
    /\ obs = hist.saved.obs
    /\ \A li \in 1 .. Len(obs) : obs[li][Len(obs[li])] = IDX_TERMINATOR

\* C21: after main's load_database(NULL, NULL, NULL) of the next run the
\* vocabulary, the non-zero associations and the observation log are those
\* main saved at the shutdown of the run before
C21_AsClaimed == (mpc.pc = "loaded_null") => SameAsSaved

\* C22: write_database to three paths, then load_database of the same paths
\* into a fresh vocabulary and observation log, gives back the same words in
\* order, the same non-zero entries and the same observation lines
C22_AsClaimed == (mpc.pc = "loaded_paths") => SameAsSaved

\* C27: a step that changes the vocabulary or its association map is taken
\* with words->mutex held, one that changes the observation log with
\* observations->mutex held; stated of main's load (the learning update is one
\* step of this specification, and cleanup_database runs when no other thread
\* is left)
C27_AsClaimed ==
    [][(mpc.pc \notin {"run", "saved"}) =>
          /\ (token' # token \/ assoc' # assoc) => mutex["words"] = MainId
          /\ (obs' # obs) => mutex["observations"] = MainId]_vars

\* the threads that take locks while the workers run
Threads == Workers \cup {TunerId}

\* the mutexes thread t holds
HeldBy(t) == {m \in Mutexes : mutex[m] = t}

\* the mutex thread t is about to lock (it blocks there while another thread
\* holds it), "none" when its next step is no lock
WaitsFor(t) ==
    IF t = TunerId
    THEN (IF tpc \in {"run", "analyze"} THEN "tracker" ELSE IF tpc = "set" THEN "settings" ELSE "none")
    ELSE IF wpc[t] \in {"start_log", "cmd_log", "fail_log", "res_log", "stop_log"} THEN "log"
    ELSE IF wpc[t] = "cc_settings" THEN "settings"
    ELSE IF wpc[t] \in {"cc_words", "bcl", "pairs"} THEN "words"
    ELSE IF wpc[t] = "tok" THEN "words"
    ELSE IF wpc[t] = "ud_obs" THEN "observations"
    ELSE IF wpc[t] \in {"push", "avg"} THEN "tracker"
    ELSE "none"

\* C28: no thread holds two of the vocabulary, observation, settings and
\* tracker mutexes at once (so none is held while the observation lock is),
\* and no set of threads waits in a cycle, each for a mutex that a thread of
\* the set holds
C28_LockDiscipline ==
    /\ \A t \in Threads : Cardinality(HeldBy(t) \ {"log"}) <= 1
    /\ \A S \in SUBSET Threads :
          S # {} => \E t \in S : ~(WaitsFor(t) # "none" /\ mutex[WaitsFor(t)] \in S)

\* a worker in the pair loop holds the vocabulary lock, the other worker waits
\* for it to synthesize, and the tuner holds the tracker lock
C28_Witness ==
    /\ wpc[1] = "pair_write" /\ mutex["words"] = 1
    /\ wpc[2] = "cc_words"
    /\ tpc = "analyze_held" /\ mutex["tracker"] = TunerId

\* C29: a worker that waits for a semaphore permit or is inside
\* execute_command holds none of the five mutexes
C29_NoLockWhileBlocked ==
    \A w \in Workers : wpc[w] \in {"sem_wait", "exec"} => HeldBy(w) = {}

\* a worker is inside execute_command while the other one updates the map
C29_Witness ==
    /\ wpc[1] = "exec" /\ HeldBy(1) = {}
    /\ wpc[2] = "pair_write" /\ mutex["words"] = 2

\* C30: whenever no worker is inside the pair loop of update_database, the
\* value of every key is the sum of the rewards of the updates made so far
\* whose command has that pair
C30_NoLostUpdate ==
    ((\A w \in Workers : wpc[w] \notin {"pair_read", "pair_write"}) /\ mpc.pc # "done") =>
        \A key \in PairKeySpace : GetKey(assoc, key) = hist.sums[key]

\* two workers ran update_database on the same command at the same time, and
\* both rewards are in the map
C30_Witness ==
    /\ wpc[1] = "push" /\ wpc[2] = "push" /\ wcmd[1] = wcmd[2]
    /\ loc[1].reward = REWARD /\ loc[2].reward = 0 - PENALTY
    /\ GetKey(assoc, PairKey(wcmd[1], 1)) = REWARD - PENALTY

\* a worker's step through the critical section of update_database on the
\* observation log
JudgeStep(w) == wpc[w] = "ud_obs_held" /\ wpc'[w] = "pairs"

\* C31: the redundancy check and the append are one critical section under the
\* observation lock: a worker whose line finds no similar stored line and
\* whose append succeeds is rewarded REWARD, and from then on the other
\* worker's equal line is redundant, so that its check gives -PENALTY (a line
\* that is redundant stays redundant while the log grows, and a check that
\* finds the line redundant gives -PENALTY)
C31_OneNovel ==
    [][\A w \in Workers :
          /\ JudgeStep(w) => mutex["observations"] = w
          /\ (JudgeStep(w) /\ JudgeLine(loc[w].line, obs).redundant = 0 /\ obs' # obs) =>
                /\ loc'[w].reward = REWARD
                /\ \A v \in Workers \ {w} :
                      (wpc[v] = "ud_obs" /\ loc[v].line = loc[w].line) =>
                          JudgeLine(loc[v].line, obs').redundant = 1
          /\ (JudgeStep(w) /\ JudgeLine(loc[w].line, obs).redundant = 1) =>
                loc'[w].reward = 0 - PENALTY
          /\ (wpc[w] \in {"ud_obs", "ud_obs_held"} /\ ~JudgeStep(w)
                /\ JudgeLine(loc[w].line, obs).redundant = 1) =>
                JudgeLine(loc[w].line, obs').redundant = 1]_vars

\* two workers had the same line, nothing like it was stored: the first one
\* through the critical section was rewarded and stored it, the second one was
\* found redundant
C31_Witness ==
    /\ wpc[1] = "pairs" /\ loc[1].reward = 0 - PENALTY
    /\ wpc[2] = "pair_read" /\ loc[2].reward = REWARD
    /\ wcmd[1] = wcmd[2] /\ Len(obs) = 2 /\ obs[1] = obs[2]

\* the log only grows at its end, by one line per step
LogGrows == obs' = obs \/ (Len(obs') = Len(obs) + 1 /\ SubSeq(obs', 1, Len(obs)) = obs)

\* a tokenized line: indices of known words, then -1
WellFormedLine(line) ==
    /\ Len(line) >= 2 /\ line[Len(line)] = IDX_TERMINATOR
    /\ \A n \in 1 .. Len(line) - 1 : line[n] \in 0 .. Len(token) - 1

RECURSIVE SeqSum(_, _, _)
SeqSum(q, from, to) == IF from > to THEN 0 ELSE q[from] + SeqSum(q, from + 1, to)

\* the verdict on a sequence of samples, oldest first: the mean of its newest
\* Len \div 2 samples against the mean of the older ones, with EPS = 0.5
VerdictOf(q) ==
    IF Len(q) < 2 THEN 0
    ELSE TrendSign([num |-> SeqSum(q, Len(q) - (Len(q) \div 2) + 1, Len(q)), den |-> Len(q) \div 2],
                   [num |-> SeqSum(q, 1, Len(q) - (Len(q) \div 2)), den |-> Len(q) - (Len(q) \div 2)])

\* C34: after any sequence of pushes, 0 <= index < W, count = min(pushes, W),
\* the filled slots hold the last min(pushes, W) pushed values (the newest one
\* just behind the cursor), the cached moving average is their arithmetic
\* mean, and the verdict of a tuner step is the verdict on the values pushed
\* before it
C34_TrackerPush ==
    [][/\ tracker'.index \in 0 .. TREND_WINDOW_SIZE - 1
       /\ tracker'.count = Min(feed'.npush, TREND_WINDOW_SIZE)
       /\ tracker'.index = feed'.npush % TREND_WINDOW_SIZE
       /\ InPushOrder(tracker') = feed'.last
       /\ get_moving_average(tracker') =
             (IF feed'.npush = 0 THEN Zero
              ELSE [num |-> SeqSum(feed'.last, 1, Len(feed'.last)), den |-> Len(feed'.last)])
       /\ (feed' = feed) => tun'.adj = VerdictOf(feed.last)]_vars

\* the buffer has wrapped, its oldest sample is gone, and the tuner has seen
\* the new samples fall
C34_Witness ==
    /\ feed.npush > TREND_WINDOW_SIZE /\ feed.mode = "samples"
    /\ tracker.index = 1 /\ tracker.count = TREND_WINDOW_SIZE
    /\ feed.last[TREND_WINDOW_SIZE] = 0 /\ feed.last[1] = 1
    /\ tun.adj = 0 - 1

\* C35: a worker that waits for a permit and has none leaves the wait only
\* when the termination flag is set, and then it returns: it has not entered
\* the worker loop, has run no command and posts no permit; and once the flag
\* is set no worker stays in the wait
C35_InterruptibleWait ==
    /\ [][\A w \in Workers :
             (wpc[w] = "sem_wait" /\ sem = 0 /\ wpc'[w] # "sem_wait") =>
                 /\ env.term /\ wpc'[w] = "exited"
                 /\ sem' = sem /\ loc'[w] = loc[w] /\ wcmd'[w] = wcmd[w] /\ nupd' = nupd]_vars
    /\ \A w \in Workers : (wpc[w] = "sem_wait" /\ env.term) ~> (wpc[w] # "sem_wait")

\* the gate had no permit: both workers waited until the signal came, then
\* returned; no command ran and the count is still 0
C35_Witness ==
    /\ mpc.max_concurrent = 0 /\ env.term
    /\ wpc[1] = "exited" /\ wpc[2] = "exited" /\ sem = 0 /\ nupd = 0

\* the pair score of word w at position p against the words C[0..p-1] of a
\* command: the sum over j < p of A(w,p,C[j],j) + A(C[j],j,w,p), from j on
RECURSIVE ScoreAt(_, _, _, _)
ScoreAt(w, p, C, j) ==
    IF j >= p THEN 0
    ELSE GetKey(assoc, <<w, p, At(C, j), j>>) + GetKey(assoc, <<At(C, j), j, w, p>>)
           + ScoreAt(w, p, C, j + 1)

\* the words of the command the worker is about to run
Chosen == SubSeq(cc.out_cmd, 1, cc.argc)

\* C36: a synthesized command is greedy: there is a sample of the
\* vocabulary, of the sample size, holding the chosen words, such that at each
\* position p >= 1 the chosen word scores at least as much against the words
\* before it as every word of the sample not chosen before p; and the command
\* was built for the vocabulary size the map and the words have now
C36_GreedyChoice ==
    (pc = "execute") =>
        /\ cc.N = Len(token)
        /\ \E S \in SUBSET (0 .. cc.N - 1) :
              /\ Cardinality(S) = sample_size_of(cc.N, cc.scope)
              /\ \A p \in 0 .. cc.argc - 1 : At(Chosen, p) \in S
              /\ \A p \in 1 .. cc.argc - 1 :
                    \A w \in S \ {At(Chosen, j) : j \in 0 .. p - 1} :
                        ScoreAt(At(Chosen, p), p, Chosen, 0) >= ScoreAt(w, p, Chosen, 0)

\* a command of two words whose second word beat, by its score, a word the
\* whole-vocabulary sample still held
C36_Witness ==
    /\ pc = "execute" /\ cc.argc = 2 /\ cc.N = 3 /\ cc.scope = SRCHMAX
    /\ \E w \in (0 .. 2) \ {At(Chosen, 0), At(Chosen, 1)} :
          ScoreAt(At(Chosen, 1), 1, Chosen, 0) > ScoreAt(w, 1, Chosen, 0)

\* C37: a synthesized command has min(L, S) arguments, L the length clamped
\* to [CMDMIN, min(CMDMAX, N)] and S = round(N * scope / 100) clamped to [1, N]
C37_CommandLength ==
    (pc = "execute") =>
        cc.argc = Min(CLAMP(cc.length, CMDMIN, Min(CMDMAX, cc.N)),
                      CLAMP((2 * cc.N * cc.scope + 100) \div 200, 1, cc.N))

\* three words, three arguments asked for, scope 50: two words sampled, a
\* command of two
C37_Witness ==
    pc = "execute" /\ cc.N = 3 /\ cc.length = 3 /\ cc.scope = 50 /\ cc.argc = 2


\* C38: when growing the vocabulary fails on allocation while load_tokens or
\* seed_vocabulary_from_path appends a token (the realloc of the pointer array
\* or the malloc of the string returns NULL), numWords and every token are as
\* before the append and the token is not counted in total_added.
C38_AsClaimed ==
    (mpc.pc \in {"load", "seed", "crashed"} /\ mpc.tried /\ ~(mpc.grown /\ mpc.slot)) =>
        /\ token = mpc.before
        /\ mpc.total_added = mpc.added_before


\* C40: the poll loop of execute_command never signals the child's process
\* group once check_child_status has collected the child: an iteration that
\* sends SIGTERM or SIGKILL has finished = 0 and the child not reaped, before
\* and after it, also when the deadline has passed or the termination flag is
\* set in the iteration that collects the child.
C40_NoSignalAfterReap ==
    [][(ex.pc = "loop" /\ ex'.sigs # ex.sigs) =>
           (child # "reaped" /\ child' # "reaped" /\ ex'.finished = 0)]_vars

\* the child was collected in an iteration that found the deadline passed or
\* the flag set, the only such iteration of the call, and no signal was sent
C40_Witness ==
    /\ ex.pc = "done" /\ ex.path = "success" /\ child = "reaped"
    /\ ex.late = 1 /\ ex.sigs = <<>>


\* the entries the map holds, chain by chain
Stored(a) == UNION {{a.buckets[b][n] : n \in 1 .. Len(a.buckets[b])} : b \in DOMAIN a.buckets}

\* every entry of the map has the value of its mirrored key
MapSymmetric(a) == \A e \in Stored(a) : assoc_get(a, e.k, e.pk, e.i, e.pi) = e.val

\* every entry of the map joins two different words at two different
\* positions, words of the vocabulary and positions of a command
KeysInRange(a, numWords) ==
    \A e \in Stored(a) :
        /\ e.i # e.k /\ e.pi # e.pk
        /\ e.i \in 0 .. numWords - 1 /\ e.k \in 0 .. numWords - 1
        /\ e.pi \in 0 .. CMDMAX - 1 /\ e.pk \in 0 .. CMDMAX - 1

\* some worker is inside the pair loop of update_database, words->mutex held
InPairLoop == \E w \in Workers : wpc[w] \in {"pair_read", "pair_write"}

\* C39: from an empty map and without allocation failure, however the
\* learning updates of the workers interleave, whenever no update is inside
\* its pair loop the map is symmetric, A(i,p,k,q) = A(k,q,i,p), and at all
\* times every stored key has i # k, p # q, i and k in [0, numWords) and p and
\* q in [0, CMDMAX).
C39_SymmetricMap ==
    /\ ~InPairLoop => MapSymmetric(assoc)
    /\ KeysInRange(assoc, Len(token))

\* both workers' updates have been applied, on the two commands a b and b a:
\* four keys are stored, and no update is under way
C39_Witness ==
    /\ ~InPairLoop /\ assoc.nentries = 4
    /\ assoc_get(assoc, 0, 0, 1, 1) # 0 /\ assoc_get(assoc, 1, 0, 0, 1) # 0

====
